---- MODULE Spec2Model ----
(***************************************************************************)
(* A model of reillywatson/statstracker: the file cache, the cache key     *)
(* builder, the cached API clients and the pull-request review correlator. *)
(*                                                                         *)
(* Time is an integer number of clock units.  The zero time.Time of Go is  *)
(* the instant 0; every real instant of the model is >= 1.  An optional    *)
(* value (a Go pointer that may be nil) is a set with at most one element. *)
(***************************************************************************)
EXTENDS Integers, Sequences, FiniteSets, TLC

VARIABLES
    files,        \* FileCache: the cache directory, file path -> file content
    now,          \* the wall clock read by time.Now()
    lastOp,       \* the FileCache call made last, with what it returned
    prevOp,       \* the FileCache call made before lastOp
    lastSet,      \* per key: the most recent successful Set not followed by Delete
    kbCall,       \* CacheKeyBuilder: two calls of one key function
    denylist,     \* ProcessPullRequests: the deny-list argument
    prCount,      \* ProcessPullRequests: how many elements of prs the loop has taken
    pr,           \* the element of prs taken last (a set: empty before the first)
    prReviews,    \* the reviews FetchPullRequestReviews returned for it
    prFetch,      \* what FetchPullRequestReviews did for it: "none", "ok", "error"
    results,      \* ProcessPullRequests: the results slice
    reviewFetches,\* the pull request numbers FetchPullRequestReviews was called with
    fetchFailed,  \* the pull request numbers it returned an error for
    survivors,    \* the numbers of the pull requests taken that passed the filter
    reviewsHeld,  \* how many reviews the client has returned in all
    call,         \* the cached fetch made last: what it met and what it returned
    calls,        \* how many cached fetches were made
    elapses,      \* how many times the clock was moved on between them
    commit,       \* the tags-repository commit whose diff is searched
    searchPR,     \* PR-search: the prNumber argument
    searchBranch, \* PR-search: the prBranch argument
    found,        \* the search made on the commit, with what it returned
    relCount,     \* ProcessDeployments: how many releases the loop has taken
    taking,       \* the release taken last, with what the services answered
    deployments,  \* ProcessDeployments: the results slice
    taken,        \* per release taken: the calls made for it and their errors
    statArg,      \* the argument of the statistics function called
    statOut,      \* the function called and what it returned
    nextPageToken,\* FetchFlakyTests: the page token of the next request
    allTests,     \* FetchFlakyTests: the tests of the pages read so far
    pageCount,    \* how many page requests it has made
    pageAnswer,   \* what the last page request was answered with
    flakyReturn,  \* whether it has returned, and what
    cliArgs,      \* a tracker command: its flags, arguments and environment
    cliRun,       \* how far main has come, and what it has done
    releaseRollouts, \* the deployment service: the rollouts of the release
    tagsArg,      \* ProcessPullRequests: the arguments tagsOwner and tagsRepo
    tagLog,       \* the calls of the client the run has made, in their order
    candidatesHeld \* how many candidate commits FetchCommits has listed in all

cacheVars == <<files, now, lastOp, prevOp, lastSet>>
keyVars == <<kbCall>>
prVars == <<denylist, prCount, pr, prReviews, prFetch, results, reviewFetches,
            fetchFailed, survivors, reviewsHeld>>

clientVars == <<call, calls, elapses>>
matchVars == <<commit, searchPR, searchBranch, found>>

\* The variables of the review tracker and those of the deployment tracker.
reviewVars == <<cacheVars, keyVars, prVars, clientVars>>
deployVars == <<relCount, taking, deployments, taken>>
statVars == <<statArg, statOut>>
circleVars == <<nextPageToken, allTests, pageCount, pageAnswer, flakyReturn>>
cliVars == <<cliArgs, cliRun>>
serviceVars == <<releaseRollouts>>
tagVars == <<tagsArg, tagLog, candidatesHeld>>
sideVars == <<circleVars, cliVars, serviceVars, tagVars>>
trackerVars == <<matchVars, deployVars, statVars, sideVars>>

vars == <<reviewVars, trackerVars>>

(***************************************************************************)
(* Bounds of the model.                                                    *)
(***************************************************************************)
MaxClock == 2
MaxTTL == 1
MaxKeyDay == 1
MaxPRs == 2
MaxLoopReviews == 1
MaxReviews == 2
MaxTime == 2
MaxCalls == 2
MaxElapses == 1
MaxFiles == 2
MaxDiffLines == 2
MaxReleases == 2
MaxMetrics == 3
MaxDurations == 4
MaxTests == 3
Clock == 0..MaxClock
TTLs == (0 - 1)..MaxTTL

(***************************************************************************)
(* time.Time and Format("2006-01-02")                                      *)
(*                                                                         *)
(* An instant is a number of hours since 0001-01-01 00:00 UTC, the zero    *)
(* time.Time.  A time.Time is an instant with the offset in hours of its   *)
(* Location: [t |-> instant, off |-> offset].                              *)
(***************************************************************************)
Time(t, off) == [t |-> t, off |-> off]

isLeap(year) == year % 4 = 0 /\ (year % 100 # 0 \/ year % 400 = 0)

\* Days before each month of a year that is not a leap year.
daysBefore == <<0, 31, 59, 90, 120, 151, 181, 212, 243, 273, 304, 334, 365>>

daysBeforeMonth(m, leap) ==
    daysBefore[m] + (IF leap /\ m > 2 THEN 1 ELSE 0)

Min(a, b) == IF a < b THEN a ELSE b

\* The civil date of a day number (day 0 is 0001-01-01), by the 400-, 100-,
\* 4- and 1-year cycles of the Gregorian calendar, as time.Time.Date does.
civilDate(days) ==
    LET n400 == days \div 146097
        d400 == days % 146097
        n100 == Min(d400 \div 36524, 3)
        d100 == d400 - 36524 * n100
        n4   == d100 \div 1461
        d4   == d100 % 1461
        n1   == Min(d4 \div 365, 3)
        yday == d4 - 365 * n1
        year == 400 * n400 + 100 * n100 + 4 * n4 + n1 + 1
        leap == isLeap(year)
        month == CHOOSE m \in 1..12 :
                     /\ daysBeforeMonth(m, leap) <= yday
                     /\ yday < daysBeforeMonth(m + 1, leap)
    IN [year |-> year, month |-> month,
        day |-> yday - daysBeforeMonth(month, leap) + 1]

\* A number in decimal, padded with zeros to a width.
pad(n, width) ==
    LET str == ToString(n) IN
    CASE width - Len(str) >= 3 -> "000" \o str
      [] width - Len(str) = 2 -> "00" \o str
      [] width - Len(str) = 1 -> "0" \o str
      [] OTHER -> str

\* t.Format("2006-01-02"): the date of the instant on the clock of t's
\* Location.
FormatDate(tm) ==
    LET d == civilDate((tm.t + tm.off) \div 24) IN
    pad(d.year, 4) \o "-" \o pad(d.month, 2) \o "-" \o pad(d.day, 2)

(***************************************************************************)
(* internal/cache: errors, Entry, JSON encoding                            *)
(*                                                                         *)
(* An interface{} value is [type, v]: the dynamic type and the value.      *)
(***************************************************************************)
ErrNil == "nil"
ErrCacheMiss == "cache miss"
ErrReadFile == "failed to read cache file"
ErrUnmarshalEntry == "failed to unmarshal cache entry"
ErrUnmarshalData == "failed to unmarshal cached data"
ErrMarshal == "failed to marshal value"
ErrMkdir == "failed to create cache subdirectory"
ErrWriteFile == "failed to write cache file"
ErrRemove == "failed to delete cache file"

Str(x) == [type |-> "string", v |-> x]
Num(n) == [type |-> "int", v |-> n]

\* The values a caller hands to Set in the runs of the FileCache alone: two
\* strings, and a value encoding/json cannot encode (a channel).
Payloads == {Str("v1"), Str("v2")}
Unencodable == [type |-> "chan", v |-> ""]
NoValue == [type |-> "nil", v |-> ""]

\* time.Time.MarshalJSON writes RFC 3339 on the clock of the Location.
FormatRFC3339(tm) ==
    FormatDate(tm) \o "T" \o pad((tm.t + tm.off) % 24, 2) \o ":00:00" \o
    (IF tm.off = 0 THEN "Z" ELSE "+" \o pad(tm.off, 2) \o ":00")

\* The elements of a JSON array from element i on, separated by commas.
RECURSIVE jsonElements(_, _)
jsonElements(strs, i) ==
    IF i > Len(strs)
    THEN ""
    ELSE (IF i > 1 THEN "," ELSE "") \o strs[i] \o jsonElements(strs, i + 1)

\* A slice: nil is written null.
jsonArray(strs) ==
    IF Len(strs) = 0 THEN "null" ELSE "[" \o jsonElements(strs, 1) \o "]"

\* github.PullRequest, with the fields the cached client reads.
jsonPullRequest(p) ==
    "{\"number\":" \o ToString(p.Number) \o ",\"state\":\"" \o p.State \o "\"}"

\* github.PullRequestReview
jsonReview(r) ==
    "{\"user\":{\"login\":\"" \o r.User \o "\"},\"state\":\"" \o r.State \o "\"}"

\* FlakyTest
jsonFlakyTest(t) ==
    "{\"test_name\":\"" \o t.TestName \o "\",\"classname\":\"" \o t.ClassName
    \o "\",\"times_flaky\":" \o ToString(t.TimesFlaky) \o "}"

\* json.Marshal of a caller's value: a string is written in double quotes, a
\* time as a quoted RFC 3339 string, a nil pointer or slice as null, a slice
\* as an array of objects; an unsupported type is an error.
jsonMarshal(v) ==
    CASE v.type = "chan" -> [err |-> TRUE, data |-> ""]
      [] v.type = "string" -> [err |-> FALSE, data |-> "\"" \o v.v \o "\""]
      [] v.type = "time" ->
            [err |-> FALSE, data |-> "\"" \o FormatRFC3339(v.v) \o "\""]
      [] v.type = "*PullRequest" ->
            [err |-> FALSE,
             data |-> IF v.v = {} THEN "null"
                      ELSE jsonPullRequest(CHOOSE p \in v.v : TRUE)]
      [] v.type = "[]*PullRequest" ->
            [err |-> FALSE,
             data |-> jsonArray([i \in 1..Len(v.v) |-> jsonPullRequest(v.v[i])])]
      [] v.type = "[]*PullRequestReview" ->
            [err |-> FALSE,
             data |-> jsonArray([i \in 1..Len(v.v) |-> jsonReview(v.v[i])])]
      [] v.type = "[]FlakyTest" ->
            [err |-> FALSE,
             data |-> jsonArray([i \in 1..Len(v.v) |-> jsonFlakyTest(v.v[i])])]

\* json.Unmarshal into the caller's variable, whose type has the values of
\* universe: the value whose encoding the data is, an error when the data is
\* no encoding of a value of that type.
decoded(values) ==
    IF values # {}
    THEN [err |-> FALSE, value |-> CHOOSE v \in values : TRUE]
    ELSE [err |-> TRUE, value |-> NoValue]

jsonUnmarshal(data, universe) ==
    decoded({v \in universe : jsonMarshal(v) = [err |-> FALSE, data |-> data]})

\* Entry{Data, ExpiresAt *time.Time, CreatedAt}.
Entry(data, expiresAt, createdAt) ==
    [Data |-> data, ExpiresAt |-> expiresAt, CreatedAt |-> createdAt]

\* json.Marshal(entry): the envelope written to the file.  expires_at is
\* "omitempty": a nil pointer leaves the key out.
marshalEntry(e) ==
    IF e.ExpiresAt = {}
    THEN [data |-> e.Data, created_at |-> e.CreatedAt]
    ELSE [data |-> e.Data, created_at |-> e.CreatedAt,
          expires_at |-> CHOOSE t \in e.ExpiresAt : TRUE]

\* What a file holds after os.WriteFile has truncated it and then failed:
\* a part of the envelope, which is no JSON document.
Partial == [partial |-> TRUE]

\* json.Unmarshal(data, &entry): a missing expires_at leaves the pointer nil;
\* a file that holds no JSON document is an error.
unmarshalEntry(doc) ==
    IF "data" \in DOMAIN doc
    THEN [err |-> FALSE,
          entry |-> Entry(doc.data,
                          IF "expires_at" \in DOMAIN doc
                          THEN {doc.expires_at} ELSE {},
                          doc.created_at)]
    ELSE [err |-> TRUE, entry |-> Entry("", {}, 0)]

\* A variant of IsExpired that already expires the entry at its deadline.
IsExpiredAtDeadline(e, clock) ==
    IF e.ExpiresAt = {}
    THEN FALSE
    ELSE \E t \in e.ExpiresAt : clock >= t

\* Entry.IsExpired
IsExpired(e, clock) ==
    IF e.ExpiresAt = {}
    THEN FALSE
    ELSE \E t \in e.ExpiresAt : clock > t

(***************************************************************************)
(* internal/cache: FileCache                                               *)
(*                                                                         *)
(* io is what the operating system does to the call: "ok", or the call of  *)
(* the os package that fails: "readError" (os.ReadFile, other than a       *)
(* missing file), "mkdirError" (os.MkdirAll), "writeError" (os.WriteFile,  *)
(* after it has truncated the file), "removeError" (os.Remove, other than  *)
(* a missing file).                                                        *)
(***************************************************************************)
CacheKeys == {"k1", "k2"}

\* hex.EncodeToString(sha256.Sum256(key)), split after its first two
\* characters, for the keys of the model.
sha256Hex(key) ==
    CASE key = "k1" ->
           <<"6a", "b9f1eb8f7d3388f4f9d586f66e99fd54080df2c446f0e58668b09c08a16dd0">>
      [] key = "k2" ->
           <<"01", "5f7e6bc5aeaf483724089e9252cc13b50951a6b69412522765cff4d780306e">>
      [] key = "github:prs_list:a:b:2024-01-01:2024-02-01" ->
           <<"73", "47ba6428084ea013aedb35a356b1404a6bf7054b6ea326f49605e58708c0f1">>
      [] key = "github:prs_list:a:b:2024-01-01:2024-02-23" ->
           <<"7d", "099f635fa5ba3b31c0ea7a91b88411810507e850b2b79a8314e2a032cca7dc">>
      [] key = "github:pr:a:b:1" ->
           <<"39", "83d9ad442ad6906e43e5e9ff33c071135451437d314ac5d195caf1a1a8aed9">>
      [] key = "github:pr:a:b:2" ->
           <<"14", "3b07251b821d9d5fcc9fa8cc0273c46d19e8e3377615ced579107a6ff561e1">>
      [] key = "github:pr_reviews:a:b:1" ->
           <<"3e", "8e5188c9b665aceded087a68666a6cae0ba1af5bdf9fff964511d476c868b8">>
      [] key = "github:pr_reviews:a:b:2" ->
           <<"a5", "595af618a3294c8a75bcdaa5c31a8956431e291c07043416d9d89a081ff06d">>
      [] key = "deploy:rollouts:proj:us:rel1" ->
           <<"5c", "1b5e57355966911ffff4c2ee6c4534614d03846b3d80c6233b69cd5e156c85">>
      [] key = "circleci:flaky-tests:a:b" ->
           <<"5d", "2304bdf544400b66d684e435207efbcc8724416e16b449194f9e6a199a5278">>

\* FileCache.keyToFilename: <baseDir>/<hash[:2]>/<hash[2:]>.json
keyToFilename(key) ==
    LET h == sha256Hex(key) IN <<h[1], h[2] \o ".json">>

\* os.Remove of a path; a path that does not exist is no error.
removeFile(fs, filename) ==
    [f \in (DOMAIN fs) \ {filename} |-> fs[f]]

\* A variant of writeFile that leaves a file that exists as it is.
writeFileKeepExisting(fs, filename, content) ==
    [f \in (DOMAIN fs) \cup {filename} |->
        IF f \in DOMAIN fs THEN fs[f] ELSE content]

\* os.WriteFile of a path: creates or replaces the file.
writeFile(fs, filename, content) ==
    [f \in (DOMAIN fs) \cup {filename} |->
        IF f = filename THEN content ELSE fs[f]]

\* FileCache.Delete
Delete(fs, key, io) ==
    IF io = "removeError" /\ keyToFilename(key) \in DOMAIN fs
    THEN [err |-> ErrRemove, files |-> fs]
    ELSE [err |-> ErrNil, files |-> removeFile(fs, keyToFilename(key))]

\* FileCache.Get at its end: u is what json.Unmarshal(entry.Data, value)
\* gave.
readData(fs, u) ==
    IF u.err
    THEN [err |-> ErrUnmarshalData, value |-> NoValue, files |-> fs]
    ELSE [err |-> ErrNil, value |-> u.value, files |-> fs]

\* FileCache.Get from the envelope on: e is what json.Unmarshal(data, &entry)
\* gave.
readEntry(fs, clock, key, universe, io, e) ==
    IF e.err
    THEN [err |-> ErrUnmarshalEntry, value |-> NoValue, files |-> fs]
    ELSE IF IsExpired(e.entry, clock)
    THEN [err |-> ErrCacheMiss, value |-> NoValue,
          files |-> Delete(fs, key, io).files]
    ELSE readData(fs, jsonUnmarshal(e.entry.Data, universe))

\* FileCache.Get: the error, the value decoded into the caller's variable and
\* the directory afterwards.
Get(fs, clock, key, universe, io) ==
    IF io = "readError"
    THEN [err |-> ErrReadFile, value |-> NoValue, files |-> fs]
    ELSE IF keyToFilename(key) \notin DOMAIN fs
    THEN [err |-> ErrCacheMiss, value |-> NoValue, files |-> fs]
    ELSE readEntry(fs, clock, key, universe, io,
                   unmarshalEntry(fs[keyToFilename(key)]))

\* FileCache.Set from the entry on: m is what json.Marshal(value) returned
\* and expiresAt the expiry the entry gets.
storeEntry(fs, clock, key, m, expiresAt, io) ==
    IF m.err
    THEN [err |-> ErrMarshal, files |-> fs]
    ELSE CASE io = "mkdirError" -> [err |-> ErrMkdir, files |-> fs]
           [] io = "writeError" ->
                 [err |-> ErrWriteFile,
                  files |-> writeFile(fs, keyToFilename(key), Partial)]
           [] OTHER ->
                 [err |-> ErrNil,
                  files |-> writeFile(fs, keyToFilename(key),
                                      marshalEntry(Entry(m.data, expiresAt, clock)))]

\* A variant of Set that gives every entry the expiry clock + ttl, whatever
\* the sign of ttl.
SetAlwaysExpires(fs, clock, key, value, ttl, io) ==
    storeEntry(fs, clock, key, jsonMarshal(value), {clock + ttl}, io)

\* A variant of Set that takes a ttl of zero for an expiry at once.
SetZeroTTLExpires(fs, clock, key, value, ttl, io) ==
    storeEntry(fs, clock, key, jsonMarshal(value),
               IF ttl >= 0 THEN {clock + ttl} ELSE {}, io)

\* FileCache.Set
Set(fs, clock, key, value, ttl, io) ==
    storeEntry(fs, clock, key, jsonMarshal(value),
               IF ttl > 0 THEN {clock + ttl} ELSE {}, io)

(***************************************************************************)
(* internal/cache: CacheKeyBuilder                                         *)
(*                                                                         *)
(* A part of a key is an interface{} value.                                *)
(***************************************************************************)
toString(part) ==
    IF part.type = "string" THEN part.v ELSE ToString(part.v)

RECURSIVE appendParts(_, _, _)
appendParts(key, parts, i) ==
    IF i > Len(parts)
    THEN key
    ELSE appendParts(key \o ":" \o toString(parts[i]), parts, i + 1)

\* A variant of PRsListKey that formats the dates to the hour.
PRsListKeyByHour(prefix, owner, repo, startDate, endDate) ==
    appendParts(prefix,
                <<Str("prs_list"), Str(owner), Str(repo),
                  Str(FormatDate(startDate) \o "T" \o pad((startDate.t + startDate.off) % 24, 2)),
                  Str(FormatDate(endDate) \o "T" \o pad((endDate.t + endDate.off) % 24, 2))>>,
                1)

buildKey(prefix, parts) == appendParts(prefix, parts, 1)

PRKey(prefix, owner, repo, prNumber) ==
    buildKey(prefix, <<Str("pr"), Str(owner), Str(repo), Num(prNumber)>>)

PRReviewsKey(prefix, owner, repo, prNumber) ==
    buildKey(prefix, <<Str("pr_reviews"), Str(owner), Str(repo), Num(prNumber)>>)

PRsListKey(prefix, owner, repo, startDate, endDate) ==
    buildKey(prefix, <<Str("prs_list"), Str(owner), Str(repo),
                       Str(FormatDate(startDate)), Str(FormatDate(endDate))>>)

ReleaseKey(prefix, projectID, region, releaseName) ==
    buildKey(prefix, <<Str("release"), Str(projectID), Str(region),
                       Str(releaseName)>>)

RolloutsKey(prefix, projectID, region, releaseName) ==
    buildKey(prefix, <<Str("rollouts"), Str(projectID), Str(region),
                       Str(releaseName)>>)

ReleasesListKey(prefix, projectID, region, pipeline, startDate, endDate) ==
    buildKey(prefix, <<Str("releases_list"), Str(projectID), Str(region),
                       Str(pipeline),
                       Str(FormatDate(startDate)), Str(FormatDate(endDate))>>)

FlakyTestsKey(prefix, org, repo) ==
    buildKey(prefix, <<Str("flaky-tests"), Str(org), Str(repo)>>)

(***************************************************************************)
(* The key functions applied to two argument lists.                        *)
(***************************************************************************)
KeyFunctions == {"PRKey", "PRReviewsKey", "PRsListKey", "ReleaseKey",
                 "RolloutsKey", "ReleasesListKey", "FlakyTestsKey"}
KeyPrefixes == {"github", "deploy"}
KeyNames == {"a", "b"}
KeyNumbers == {1, 2}

\* Instants around two midnights, the second one the end of January, each
\* on the clock of two Locations.
KeyTimes ==
    {Time(24 * d + h, off) : d \in {30, 30 + MaxKeyDay}, h \in {0, 23},
                             off \in {0, 1}}
DefaultTime == Time(24, 0)

TakesNumber(fn) == fn \in {"PRKey", "PRReviewsKey"}
TakesDates(fn) == fn \in {"PRsListKey", "ReleasesListKey"}

\* The arguments of one call of fn: the prefix of the builder, the string
\* fields in order, the number and the two dates (each read only by the
\* functions that take it).
KeyArgs(fn) ==
    [prefix : KeyPrefixes, f1 : KeyNames, f2 : {"r"}, f3 : {"x"},
     n : IF TakesNumber(fn) THEN KeyNumbers ELSE {0},
     startDate : IF TakesDates(fn) THEN KeyTimes ELSE {DefaultTime},
     endDate : IF TakesDates(fn) THEN KeyTimes ELSE {DefaultTime}]

keyOf(fn, a) ==
    CASE fn = "PRKey" -> PRKey(a.prefix, a.f1, a.f2, a.n)
      [] fn = "PRReviewsKey" -> PRReviewsKey(a.prefix, a.f1, a.f2, a.n)
      [] fn = "PRsListKey" ->
            PRsListKey(a.prefix, a.f1, a.f2, a.startDate, a.endDate)
      [] fn = "ReleaseKey" -> ReleaseKey(a.prefix, a.f1, a.f2, a.f3)
      [] fn = "RolloutsKey" -> RolloutsKey(a.prefix, a.f1, a.f2, a.f3)
      [] fn = "ReleasesListKey" ->
            ReleasesListKey(a.prefix, a.f1, a.f2, a.f3, a.startDate, a.endDate)
      [] fn = "FlakyTestsKey" -> FlakyTestsKey(a.prefix, a.f1, a.f2)

NoKeyCall == [fn |-> "none", done |-> TRUE]



(***************************************************************************)
(* The cached clients: CachedGitHubClient, CachedDeployClient,             *)
(* CachedCircleCIClient                                                    *)
(*                                                                         *)
(* Durations are in hours.  api is what the wrapped client answers if it   *)
(* is called: [err, value].  Each fetch gives what it returns (value, err) *)
(* with what it met on the way: the error of its first cache Get, whether  *)
(* it called the wrapped client, and the errors of its cache Sets in order.*)
(***************************************************************************)
ShortTTL == 1
LongTTL == 24

ErrAPI == "api error"

PRList(prs) == [type |-> "[]*PullRequest", v |-> prs]
PRPointer(p) == [type |-> "*PullRequest", v |-> p]
ReviewList(reviews) == [type |-> "[]*PullRequestReview", v |-> reviews]
TimeValue(tm) == [type |-> "time", v |-> tm]
FlakyTestList(tests) == [type |-> "[]FlakyTest", v |-> tests]

\* CachedGitHubClient.isPRCacheable of a *github.PullRequest
isPRCacheable(p) == p # {} /\ \A x \in p : x.State = "closed"

\* CachedGitHubClient.calculatePRListTTL
calculatePRListTTL(endDate, clock) ==
    IF clock - endDate.t > 7 * 24 THEN LongTTL ELSE ShortTTL

\* CachedDeployClient.isReleaseCacheable of a non-nil release
isReleaseCacheable(release) ==
    release.RenderState = "SUCCEEDED" \/ release.RenderState = "FAILED"

\* A variant that calls the wrapped client although the cache answered.
HitAndCalled(g) ==
    [files |-> g.files, value |-> g.value, err |-> ErrNil, getErr |-> g.err,
     apiCalled |-> TRUE, setErrs |-> <<>>]

\* A fetch answered from the cache; g is what the cache Get returned.
Hit(g) ==
    [files |-> g.files, value |-> g.value, err |-> ErrNil, getErr |-> g.err,
     apiCalled |-> FALSE, setErrs |-> <<>>]

\* A fetch whose wrapped client failed: the zero value and the error.
Failed(g, zero) ==
    [files |-> g.files, value |-> zero, err |-> ErrAPI, getErr |-> g.err,
     apiCalled |-> TRUE, setErrs |-> <<>>]

\* A fetch answered by the wrapped client; stored is the directory and the
\* errors of the cache Sets made.
Fetched(g, stored, value) ==
    [files |-> stored.files, value |-> value, err |-> ErrNil, getErr |-> g.err,
     apiCalled |-> TRUE, setErrs |-> stored.setErrs]

\* Nothing was stored after the Get g.
NothingStored(g) == [files |-> g.files, setErrs |-> <<>>]

\* One more cache Set was made; s is what it returned.
AlsoStored(stored, s) ==
    [files |-> s.files, setErrs |-> Append(stored.setErrs, s.err)]

\* The loop of FetchPullRequests over prs from element i on: each closed
\* pull request is stored under its PRKey.
RECURSIVE cachePRs(_, _, _, _, _, _, _)
cachePRs(stored, clock, owner, repo, prs, i, io) ==
    IF i > Len(prs)
    THEN stored
    ELSE IF isPRCacheable({prs[i]})
    THEN cachePRs(AlsoStored(stored,
                             Set(stored.files, clock,
                                 PRKey("github", owner, repo, prs[i].Number),
                                 PRPointer({prs[i]}), LongTTL, io)),
                  clock, owner, repo, prs, i + 1, io)
    ELSE cachePRs(stored, clock, owner, repo, prs, i + 1, io)

\* CachedGitHubClient.FetchPullRequests from the cache Get on; g is what the
\* Get returned.
fetchPullRequests(g, clock, owner, repo, cacheKey, endDate, api, io) ==
    IF g.err = ErrNil
    THEN Hit(g)
    ELSE IF api.err
    THEN Failed(g, PRList(<<>>))
    ELSE Fetched(g,
                 cachePRs(AlsoStored(NothingStored(g),
                                     Set(g.files, clock, cacheKey, api.value,
                                         calculatePRListTTL(endDate, clock), io)),
                          clock, owner, repo, api.value.v, 1, io),
                 api.value)

\* CachedGitHubClient.FetchPullRequests; prLists is the type of cachedPRs.
CachedFetchPullRequests(fs, clock, owner, repo, startDate, endDate, prLists, api, io) ==
    fetchPullRequests(Get(fs, clock,
                          PRsListKey("github", owner, repo, startDate, endDate),
                          prLists, io),
                      clock, owner, repo,
                      PRsListKey("github", owner, repo, startDate, endDate),
                      endDate, api, io)

\* A variant that keeps the reviews of every pull request for 24 hours.
reviewsTTLAlwaysLong(gp) == LongTTL

\* The TTL FetchPullRequestReviews stores the reviews with; gp is what the
\* cache Get of the pull request returned.
reviewsTTL(gp) ==
    IF gp.err = ErrNil /\ isPRCacheable(gp.value.v) THEN LongTTL ELSE ShortTTL

\* CachedGitHubClient.FetchPullRequestReviews from the cache Get of the pull
\* request on.
storeReviews(g, gp, clock, cacheKey, api, io) ==
    Fetched(g,
            AlsoStored(NothingStored(g),
                       Set(gp.files, clock, cacheKey, api.value, reviewsTTL(gp), io)),
            api.value)

\* CachedGitHubClient.FetchPullRequestReviews from its first cache Get on.
fetchPullRequestReviews(g, clock, cacheKey, prKey, prPointers, api, io) ==
    IF g.err = ErrNil
    THEN Hit(g)
    ELSE IF api.err
    THEN Failed(g, ReviewList(<<>>))
    ELSE storeReviews(g, Get(g.files, clock, prKey, prPointers, io),
                      clock, cacheKey, api, io)

\* CachedGitHubClient.FetchPullRequestReviews; reviewLists is the type of
\* cachedReviews and prPointers that of pr.
CachedFetchPullRequestReviews(fs, clock, owner, repo, prNumber, reviewLists, prPointers, api, io) ==
    fetchPullRequestReviews(Get(fs, clock,
                                PRReviewsKey("github", owner, repo, prNumber),
                                reviewLists, io),
                            clock,
                            PRReviewsKey("github", owner, repo, prNumber),
                            PRKey("github", owner, repo, prNumber),
                            prPointers, api, io)

\* CachedDeployClient.GetReleaseFinishTime from the cache Get on.
getReleaseFinishTime(g, clock, rolloutsKey, release, api, io) ==
    IF g.err = ErrNil
    THEN Hit(g)
    ELSE IF api.err
    THEN Failed(g, TimeValue(Time(0, 0)))
    ELSE IF isReleaseCacheable(release)
    THEN Fetched(g,
                 AlsoStored(NothingStored(g),
                            Set(g.files, clock, rolloutsKey, api.value, LongTTL, io)),
                 api.value)
    ELSE Fetched(g, NothingStored(g), api.value)

\* CachedDeployClient.GetReleaseFinishTime; times is the type of cachedResult.
CachedGetReleaseFinishTime(fs, clock, projectID, region, release, times, api, io) ==
    getReleaseFinishTime(Get(fs, clock,
                             RolloutsKey("deploy", projectID, region, release.Name),
                             times, io),
                         clock,
                         RolloutsKey("deploy", projectID, region, release.Name),
                         release, api, io)

\* What FetchFlakyTests would return if the error of the cache Set were
\* fatal.
SetFatal(r) ==
    IF \E i \in 1..Len(r.setErrs) : r.setErrs[i] # ErrNil
    THEN [r EXCEPT !.value = FlakyTestList(<<>>), !.err = r.setErrs[1]]
    ELSE r

\* A variant of fetchFlakyTests that gives up when the cache Set fails.
fetchFlakyTestsSetFatal(g, clock, key, api, io) ==
    IF g.err = ErrNil
    THEN Hit(g)
    ELSE IF api.err
    THEN Failed(g, FlakyTestList(<<>>))
    ELSE SetFatal(Fetched(g,
                          AlsoStored(NothingStored(g),
                                     Set(g.files, clock, key, api.value, ShortTTL, io)),
                          api.value))
\* CachedCircleCIClient.FetchFlakyTests from the cache Get on.
fetchFlakyTests(g, clock, key, api, io) ==
    IF g.err = ErrNil
    THEN Hit(g)
    ELSE IF api.err
    THEN Failed(g, FlakyTestList(<<>>))
    ELSE Fetched(g,
                 AlsoStored(NothingStored(g),
                            Set(g.files, clock, key, api.value, ShortTTL, io)),
                 api.value)

\* CachedCircleCIClient.FetchFlakyTests; testLists is the type of cachedTests.
CachedFetchFlakyTests(fs, clock, org, repo, testLists, api, io) ==
    fetchFlakyTests(Get(fs, clock, FlakyTestsKey("circleci", org, repo),
                        testLists, io),
                    clock, FlakyTestsKey("circleci", org, repo), api, io)

(***************************************************************************)
(* internal/github: ProcessPullRequests                                    *)
(*                                                                         *)
(* A pull request is [Number, Title, Draft, State, MergedAt, User,         *)
(* CreatedAt] and a review [User, State, SubmittedAt], each field holding  *)
(* what its Get method returns (User the login).                           *)
(***************************************************************************)
IsZero(t) == t = 0

\* slices.Contains
Contains(list, x) == \E i \in 1..Len(list) : list[i] = x

\* The variables of the review loop before its first iteration.
NoReviewYet ==
    [firstReviewTime |-> {}, firstReviewer |-> "", firstReviewState |-> "",
     firstApprovalTime |-> {}, approver |-> "", validReviewFound |-> FALSE]

\* A variant of NilOrBefore that also replaces on an equal time.
NilOrNotAfter(t, p) == p = {} \/ \E q \in p : t <= q
\* time.Time.Before against a *time.Time that may be nil: TRUE when the
\* pointer is nil (the condition p == nil || t.Before(*p)).
NilOrBefore(t, p) == p = {} \/ \E q \in p : t < q

\* A variant of reviewStep that does not skip a review by the pull request's
\* own author.
reviewStepCountSelf(acc, review, prAuthorLogin, deny) ==
    LET submittedAt == review.SubmittedAt
        reviewerUser == review.User
        reviewState == review.State
    IN
    IF reviewState = "PENDING"
    THEN acc
    ELSE IF Contains(deny, reviewerUser)
    THEN acc
    ELSE LET first == NilOrBefore(submittedAt, acc.firstReviewTime)
             appr == /\ reviewState = "APPROVED"
                     /\ NilOrBefore(submittedAt, acc.firstApprovalTime)
         IN [firstReviewTime |-> IF first THEN {submittedAt}
                                 ELSE acc.firstReviewTime,
             firstReviewer |-> IF first THEN reviewerUser
                               ELSE acc.firstReviewer,
             firstReviewState |-> IF first THEN reviewState
                                  ELSE acc.firstReviewState,
             firstApprovalTime |-> IF appr THEN {submittedAt}
                                   ELSE acc.firstApprovalTime,
             approver |-> IF appr THEN reviewerUser ELSE acc.approver,
             validReviewFound |-> TRUE]
\* One iteration of the loop over reviews.
reviewStep(acc, review, prAuthorLogin, deny) ==
    LET submittedAt == review.SubmittedAt
        reviewerUser == review.User
        reviewState == review.State
    IN
    IF reviewState = "PENDING" \/ reviewerUser = prAuthorLogin
    THEN acc
    ELSE IF Contains(deny, reviewerUser)
    THEN acc
    ELSE LET first == NilOrBefore(submittedAt, acc.firstReviewTime)
             appr == /\ reviewState = "APPROVED"
                     /\ NilOrBefore(submittedAt, acc.firstApprovalTime)
         IN [firstReviewTime |-> IF first THEN {submittedAt}
                                 ELSE acc.firstReviewTime,
             firstReviewer |-> IF first THEN reviewerUser
                               ELSE acc.firstReviewer,
             firstReviewState |-> IF first THEN reviewState
                                  ELSE acc.firstReviewState,
             firstApprovalTime |-> IF appr THEN {submittedAt}
                                   ELSE acc.firstApprovalTime,
             approver |-> IF appr THEN reviewerUser ELSE acc.approver,
             validReviewFound |-> TRUE]

\* The loop over reviews, from element i on.
RECURSIVE scanReviews(_, _, _, _, _)
scanReviews(acc, reviews, i, prAuthorLogin, deny) ==
    IF i > Len(reviews)
    THEN acc
    ELSE scanReviews(reviewStep(acc, reviews[i], prAuthorLogin, deny),
                     reviews, i + 1, prAuthorLogin, deny)

\* A variant that subtracts the time from the creation time.
durationUntil(p, createdAt) ==
    IF p = {} THEN 0 ELSE createdAt - (CHOOSE t \in p : TRUE)

\* t.Sub(createdAt) of a *time.Time, zero when the pointer is nil.
durationSince(p, createdAt) ==
    IF p = {} THEN 0 ELSE (CHOOSE t \in p : TRUE) - createdAt

\* A variant of skipsPR that lets a closed pull request through whether or
\* not it was merged.
skipsPRKeepClosed(p, deny) ==
    \/ p.Draft
    \/ Contains(deny, p.User)
\* The eligibility filter at the head of the loop over prs: TRUE when the
\* pull request is skipped.
skipsPR(p, deny) ==
    \/ p.Draft
    \/ (p.State = "closed" /\ IsZero(p.MergedAt))
    \/ Contains(deny, p.User)

\* The PullRequestMetric appended for a pull request and its fetched reviews.
metricOf(p, reviews, deny, clock, tagCommits) ==
    LET prAuthorLogin == p.User
        acc == scanReviews(NoReviewYet, reviews, 1, prAuthorLogin, deny)
    IN [PRTitle |-> p.Title,
        PRNumber |-> p.Number,
        Author |-> prAuthorLogin,
        TimeToFirstReview |-> durationSince(acc.firstReviewTime, p.CreatedAt),
        FirstReviewer |-> acc.firstReviewer,
        FirstReviewState |-> acc.firstReviewState,
        TimeToApproval |-> durationSince(acc.firstApprovalTime, p.CreatedAt),
        Approver |-> acc.approver,
        HasReview |-> acc.validReviewFound,
        TimeSinceCreation |-> clock - p.CreatedAt,
        TagCommits |-> tagCommits]

\* A variant of processPR that appends nothing for a pull request without a
\* valid review.
processPRDropUnreviewed(p, deny, fetch, clock, tagCommits) ==
    IF skipsPR(p, deny)
    THEN [fetched |-> FALSE, emitted |-> FALSE, metric |-> <<>>]
    ELSE IF fetch.err
    THEN [fetched |-> TRUE, emitted |-> FALSE, metric |-> <<>>]
    ELSE IF ~metricOf(p, fetch.reviews, deny, clock, tagCommits).HasReview
    THEN [fetched |-> TRUE, emitted |-> FALSE, metric |-> <<>>]
    ELSE [fetched |-> TRUE, emitted |-> TRUE,
          metric |-> <<metricOf(p, fetch.reviews, deny, clock, tagCommits)>>]
\* One iteration of the loop over prs.  fetch is what the client answers if
\* FetchPullRequestReviews is called: [err, reviews].  The result tells
\* whether the client was called and whether a metric is appended.
processPR(p, deny, fetch, clock, tagCommits) ==
    IF skipsPR(p, deny)
    THEN [fetched |-> FALSE, emitted |-> FALSE, metric |-> <<>>]
    ELSE IF fetch.err
    THEN [fetched |-> TRUE, emitted |-> FALSE, metric |-> <<>>]
    ELSE [fetched |-> TRUE, emitted |-> TRUE,
          metric |-> <<metricOf(p, fetch.reviews, deny, clock, tagCommits)>>]

(***************************************************************************)
(* Text.  A Go string that the program takes apart (a patch, a diff line,  *)
(* a branch name, an annotation) is a sequence of one-character strings.   *)
(***************************************************************************)
Digits == {"0", "1", "2", "3", "4", "5", "6", "7", "8", "9"}
HexDigits == Digits \cup {"a", "b", "c", "d", "e", "f"}
Lower == {"a", "b", "c", "d", "e", "f", "g", "h", "i", "j", "k", "l", "m",
          "n", "o", "p", "q", "r", "s", "t", "u", "v", "w", "x", "y", "z"}
Upper == {"A", "B", "C", "D", "E", "F", "G", "H", "I", "J", "K", "L", "M",
          "N", "O", "P", "Q", "R", "S", "T", "U", "V", "W", "X", "Y", "Z"}
\* The classes \w and \s of Go's regexp.
WordChars == Digits \cup Lower \cup Upper \cup {"_"}
SpaceChars == {" ", "\t", "\n", "\f", "\r"}

\* strconv.Itoa of a number that is not negative.
RECURSIVE Itoa(_)
Itoa(n) ==
    IF n < 10 THEN <<ToString(n)>> ELSE Itoa(n \div 10) \o <<ToString(n % 10)>>

\* strings.HasPrefix
HasPrefix(s, prefix) ==
    Len(s) >= Len(prefix) /\ SubSeq(s, 1, Len(prefix)) = prefix

\* The literal lit stands in s at position i.
hasAt(s, i, lit) ==
    i + Len(lit) - 1 <= Len(s) /\ SubSeq(s, i, i + Len(lit) - 1) = lit

\* strings.Contains
stringsContains(s, substr) == \E i \in 1..(Len(s) + 1) : hasAt(s, i, substr)

\* strings.Split(s, sep) for a separator of one character.
RECURSIVE splitFrom(_, _, _, _)
splitFrom(s, sep, start, i) ==
    IF i > Len(s) THEN <<SubSeq(s, start, Len(s))>>
    ELSE IF s[i] = sep
    THEN <<SubSeq(s, start, i - 1)>> \o splitFrom(s, sep, i + 1, i + 1)
    ELSE splitFrom(s, sep, start, i + 1)

stringsSplit(s, sep) == splitFrom(s, sep, 1, 1)

\* The first position of s from i on whose character is not in the class
\* (Len(s) + 1 when there is none): where a greedy `class*` stops.
RECURSIVE skip(_, _, _)
skip(s, i, class) ==
    IF i <= Len(s) /\ s[i] \in class THEN skip(s, i + 1, class) ELSE i

\* The first position of s from i on that holds the character c: where a
\* greedy `[^c]*` stops.
RECURSIVE skipTo(_, _, _)
skipTo(s, i, c) ==
    IF i <= Len(s) /\ s[i] # c THEN skipTo(s, i + 1, c) ELSE i

(***************************************************************************)
(* The commit-reference matcher: the regular expressions of the PR-search  *)
(* (analyzeCommitDiffForPRReference) and of the release-search             *)
(* (ExtractCommitSHAFromRelease).  No expression is anchored, so a match   *)
(* may start at any "+" of the line; regexp finds the leftmost one.  Every *)
(* repetition is followed by a character outside its class, so the greedy  *)
(* match is the only one.                                                  *)
(***************************************************************************)
MinSHA == 7
MaxSHA == 40

\* `\+\s*\w+:\s*` at position i of s: the position after it, 0 when it does
\* not match there.
keyEndAfter(s, w, c) ==
    IF c > w /\ c <= Len(s) /\ s[c] = ":" THEN skip(s, c + 1, SpaceChars) ELSE 0

keyEndFrom(s, w) == keyEndAfter(s, w, skip(s, w, WordChars))

keyEnd(s, i) ==
    IF s[i] = "+" THEN keyEndFrom(s, skip(s, i + 1, SpaceChars)) ELSE 0

\* `[a-f0-9]{7,40}` at position i of s: the text it takes, <<>> when fewer
\* than seven hexadecimal digits stand there.
shaOfRun(s, i, run) ==
    IF run < MinSHA THEN <<>> ELSE SubSeq(s, i, i + Min(run, MaxSHA) - 1)

shaAt(s, i) == shaOfRun(s, i, skip(s, i, HexDigits) - i)

\* `\d{4}_\d{2}_\d{2}__\d{2}_\d{2}_\d{2}__`
StampShape ==
    <<"d", "d", "d", "d", "_", "d", "d", "_", "d", "d", "_", "_",
      "d", "d", "_", "d", "d", "_", "d", "d", "_", "_">>

isStamp(s, i) ==
    /\ i + Len(StampShape) - 1 <= Len(s)
    /\ \A k \in 1..Len(StampShape) :
          IF StampShape[k] = "d" THEN s[i + k - 1] \in Digits
                                 ELSE s[i + k - 1] = "_"

PullDash == <<"p", "u", "l", "l", "-">>
Underscores == <<"_", "_">>

\* A compiled literal is a sequence of atoms: a character to meet, or any
\* character.  regexp.QuoteMeta makes every character of the text stand for
\* itself; Itoa yields digits only, which stand for themselves.
Literally(s) == [i \in 1..Len(s) |-> [any |-> FALSE, c |-> s[i]]]

\* A variant that leaves the text unquoted: a "." of it meets any character.
Unquoted(s) == [i \in 1..Len(s) |-> [any |-> s[i] = ".", c |-> s[i]]]
QuoteMeta(s) == Literally(s)

atomsAt(s, i, atoms) ==
    /\ i + Len(atoms) - 1 <= Len(s)
    /\ \A k \in 1..Len(atoms) : atoms[k].any \/ s[i + k - 1] = atoms[k].c

\* The least element of a set of positions that is not empty.
firstOf(at) == CHOOSE i \in at : \A j \in at : i <= j

\* PR-search, prPattern: `\+\s*\w+:\s*pull-<prNumber>_[a-f0-9]{7,40}`.  k is
\* where the part before "pull-" ended.
prPatternAt(s, k, atoms) ==
    /\ k > 0
    /\ atomsAt(s, k, atoms)
    /\ shaAt(s, k + Len(atoms)) # <<>>

prPatternFinds(line, number) ==
    \E i \in 1..Len(line) :
        prPatternAt(line, keyEnd(line, i),
                    Literally(PullDash \o Itoa(number) \o <<"_">>))

\* PR-search, branchPattern: the time stamp, the quoted branch, "__" and the
\* SHA.
branchPatternAt(s, k, atoms) ==
    /\ k > 0
    /\ isStamp(s, k)
    /\ atomsAt(s, k + Len(StampShape), atoms)
    /\ shaAt(s, k + Len(StampShape) + Len(atoms)) # <<>>

branchPatternFinds(line, branch) ==
    \E i \in 1..Len(line) :
        branchPatternAt(line, keyEnd(line, i),
                        QuoteMeta(branch) \o Literally(Underscores))

\* Release-search, shaPattern1: `\+\s*\w+:\s*pull-(\d+)_([a-f0-9]{7,40})`.
\* What the two groups capture; the SHA is <<>> when there is no match.
NoSHA == [sha |-> <<>>, prNumber |-> <<>>]

pullGroups(number, sha) ==
    IF sha = <<>> THEN NoSHA ELSE [sha |-> sha, prNumber |-> number]

pullCapture(s, k, d) ==
    IF d > k + Len(PullDash) /\ d <= Len(s) /\ s[d] = "_"
    THEN pullGroups(SubSeq(s, k + Len(PullDash), d - 1), shaAt(s, d + 1))
    ELSE NoSHA

shaPattern1At(s, k) ==
    IF k > 0 /\ hasAt(s, k, PullDash)
    THEN pullCapture(s, k, skip(s, k + Len(PullDash), Digits))
    ELSE NoSHA

shaPattern1Starts(line) ==
    {i \in 1..Len(line) : shaPattern1At(line, keyEnd(line, i)).sha # <<>>}

shaPattern1From(line, starts) ==
    IF starts = {} THEN NoSHA
    ELSE shaPattern1At(line, keyEnd(line, firstOf(starts)))

shaPattern1(line) == shaPattern1From(line, shaPattern1Starts(line))

\* Release-search, shaPattern2: the time stamp, `[^_]+`, "__" and the
\* captured SHA.
branchCapture(s, b, e) ==
    IF e > b /\ hasAt(s, e, Underscores)
    THEN shaAt(s, e + Len(Underscores))
    ELSE <<>>

shaPattern2At(s, k) ==
    IF k > 0 /\ isStamp(s, k)
    THEN branchCapture(s, k + Len(StampShape),
                       skipTo(s, k + Len(StampShape), "_"))
    ELSE <<>>

shaPattern2Starts(line) ==
    {i \in 1..Len(line) : shaPattern2At(line, keyEnd(line, i)) # <<>>}

shaPattern2From(line, starts) ==
    IF starts = {} THEN <<>>
    ELSE shaPattern2At(line, keyEnd(line, firstOf(starts)))

shaPattern2(line) == shaPattern2From(line, shaPattern2Starts(line))

MainToken == <<"_", "_", "m", "a", "i", "n", "_", "_">>
Added == <<"+">>
NewLine == "\n"

\* The lines of a file's patch (the file has one).
patchLines(file) == stringsSplit(CHOOSE p \in file.Patch : TRUE, NewLine)

(***************************************************************************)
(* PR-search: analyzeCommitDiffForPRReference.  A commit is [sha, message, *)
(* author, date, files]; a file's Patch is a pointer (a set).              *)
(***************************************************************************)
TagCommit(c) ==
    [SHA |-> c.sha, Message |-> c.message, Date |-> c.date,
     Author |-> c.author]

\* The body of the loop over the lines: does this line return a TagCommit.
refersToPR(line, number, branch) ==
    /\ HasPrefix(line, Added)
    /\ \/ prPatternFinds(line, number)
       \/ branch # <<>> /\ branchPatternFinds(line, branch)

RECURSIVE linesReferToPR(_, _, _, _)
linesReferToPR(lines, k, number, branch) ==
    IF k > Len(lines) THEN FALSE
    ELSE IF refersToPR(lines[k], number, branch) THEN TRUE
    ELSE linesReferToPR(lines, k + 1, number, branch)

RECURSIVE filesReferToPR(_, _, _, _)
filesReferToPR(fs, f, number, branch) ==
    IF f > Len(fs) THEN FALSE
    ELSE IF fs[f].Patch = {} THEN filesReferToPR(fs, f + 1, number, branch)
    ELSE IF linesReferToPR(patchLines(fs[f]), 1, number, branch) THEN TRUE
    ELSE filesReferToPR(fs, f + 1, number, branch)

\* The result is a pointer: {} is nil.
analyzeCommitDiffForPRReference(c, number, branch) ==
    IF Len(c.files) = 0 THEN {}
    ELSE IF filesReferToPR(c.files, 1, number, branch) THEN {TagCommit(c)}
    ELSE {}

(***************************************************************************)
(* Release-search: DeployClient.ExtractCommitSHAFromRelease.  A release is *)
(* [Name, Annotations, CreateTime]; Annotations is a function from the     *)
(* annotation names the release carries (none for a nil map) to texts.     *)
(***************************************************************************)
ErrNoAnnotation == "no commit SHA found in release annotations"
ErrTagsCommit == "failed to get commit from tags repo"
ErrNoFiles == "no files in commit diff"
ErrNoSHAInDiff == "no application commit SHA found in diff"
ErrServiceCommit == "failed to get commit from services repo"

GitSHA == "git-sha"
CommitURL == "commit"

\* The tags-repository commit SHA the annotations name, <<>> when none.
lastPart(parts) == IF Len(parts) > 0 THEN parts[Len(parts)] ELSE <<>>

annotatedSHA(release) ==
    IF GitSHA \in DOMAIN release.Annotations
    THEN release.Annotations[GitSHA]
    ELSE IF CommitURL \in DOMAIN release.Annotations
    THEN lastPart(stringsSplit(release.Annotations[CommitURL], "/"))
    ELSE <<>>

\* The capture found so far if there is one, else what the rest gives.
orElse(capture, rest) == IF capture.sha # <<>> THEN capture ELSE rest

\* The body of the loop over the lines of a patch: what an added line that
\* matches sets.
mainGroup(line, sha) ==
    IF sha # <<>> /\ stringsContains(line, MainToken)
    THEN [sha |-> sha, prNumber |-> <<>>]
    ELSE NoSHA

mainCapture(line) == mainGroup(line, shaPattern2(line))

\* A variant that tries the patterns on every line of the patch.
lineCaptureAnyLine(line) == orElse(shaPattern1(line), mainCapture(line))
lineCapture(line) ==
    IF ~HasPrefix(line, Added) THEN NoSHA
    ELSE orElse(shaPattern1(line), mainCapture(line))

\* The loop over the lines from line k on, left at the first capture.
RECURSIVE linesCapture(_, _)
linesCapture(lines, k) ==
    IF k > Len(lines) THEN NoSHA
    ELSE orElse(lineCapture(lines[k]), linesCapture(lines, k + 1))

\* The loop over the files from file f on, left at the first capture.
RECURSIVE filesCapture(_, _)
filesCapture(fs, f) ==
    IF f > Len(fs) THEN NoSHA
    ELSE IF fs[f].Patch = {} THEN filesCapture(fs, f + 1)
    ELSE orElse(linesCapture(patchLines(fs[f]), 1), filesCapture(fs, f + 1))

Extracted(sha, number, commitTime, err) ==
    [sha |-> sha, prNumber |-> number, commitTime |-> commitTime, err |-> err]

ExtractFailed(err) == Extracted(<<>>, <<>>, 0, err)

\* The part after the diff search: the commit of the services repository.
\* service is what Repositories.GetCommit answers, [err, date].
withCommitTime(capture, service) ==
    IF capture.sha = <<>> THEN ExtractFailed(ErrNoSHAInDiff)
    ELSE IF service.err THEN ExtractFailed(ErrServiceCommit)
    ELSE Extracted(capture.sha, capture.prNumber, service.date, ErrNil)

\* A variant without the test for a commit that has no files.
ExtractUncheckedFiles(release, tags, service) ==
    IF annotatedSHA(release) = <<>> THEN ExtractFailed(ErrNoAnnotation)
    ELSE IF tags.err THEN ExtractFailed(ErrTagsCommit)
    ELSE withCommitTime(filesCapture(tags.commit.files, 1), service)
\* tags is what Repositories.GetCommit answers for the annotated SHA,
\* [err, commit].
ExtractCommitSHAFromRelease(release, tags, service) ==
    IF annotatedSHA(release) = <<>> THEN ExtractFailed(ErrNoAnnotation)
    ELSE IF tags.err THEN ExtractFailed(ErrTagsCommit)
    ELSE IF Len(tags.commit.files) = 0 THEN ExtractFailed(ErrNoFiles)
    ELSE withCommitTime(filesCapture(tags.commit.files, 1), service)

(***************************************************************************)
(* DeployClient.GetReleaseFinishTime and ProcessDeployments.  A rollout is *)
(* [State, DeployEndTime], the end time a pointer (a set).  What           *)
(* ListRollouts answers is [rollouts, err]: the rollouts the iterator      *)
(* yields, and whether it then fails instead of ending.                    *)
(***************************************************************************)
ErrListRollouts == "failed to list rollouts for release"
ErrNoRollout == "no completed rollouts found for release"

Succeeded == "SUCCEEDED"
Failed_ == "FAILED"

FinishTime(t, err) == [time |-> t, err |-> err]

\* A variant that counts every rollout that has an end time.
completesInAnyState(rollout) == rollout.DeployEndTime # {}
\* Only consider successful rollouts.
completes(rollout) ==
    rollout.State = Succeeded /\ rollout.DeployEndTime # {}

endTime(rollout) == CHOOSE t \in rollout.DeployEndTime : TRUE

\* The loop over the iterator from its k-th rollout on, with the latest
\* finish time and the flag found so far.
RECURSIVE listRollouts(_, _, _, _)
listRollouts(listing, k, latestFinishTime, foundCompletedRollout) ==
    IF k > Len(listing.rollouts)
    THEN IF listing.err THEN FinishTime(0, ErrListRollouts)
         ELSE IF ~foundCompletedRollout THEN FinishTime(0, ErrNoRollout)
         ELSE FinishTime(latestFinishTime, ErrNil)
    ELSE IF completes(listing.rollouts[k])
    THEN listRollouts(listing, k + 1,
                      IF endTime(listing.rollouts[k]) > latestFinishTime
                      THEN endTime(listing.rollouts[k])
                      ELSE latestFinishTime,
                      TRUE)
    ELSE listRollouts(listing, k + 1, latestFinishTime,
                      foundCompletedRollout)

GetReleaseFinishTime(listing) == listRollouts(listing, 1, 0, FALSE)

\* A variant that never yields a negative duration.
SubClamped(t, u) == IF t < u THEN 0 ELSE t - u
\* time.Time.Sub, for instants whose difference a Duration holds.
Sub(t, u) == t - u

DeploymentMetric(release, extract, finish) ==
    [ReleaseID |-> lastPart(stringsSplit(release.Name, "/")),
     ReleaseName |-> release.Name,
     CommitSHA |-> extract.sha,
     PRNumber |-> extract.prNumber,
     CommitTime |-> extract.commitTime,
     ReleaseStartTime |-> release.CreateTime,
     ReleaseFinishTime |-> finish.time,
     CommitToDeployLatency |-> Sub(finish.time, extract.commitTime),
     DeploymentSuccessful |-> TRUE]

\* One iteration of the loop over releases.  extract is what
\* ExtractCommitSHAFromRelease returned and finish what GetReleaseFinishTime
\* returns if it is called.
NotCalled == FinishTime(0, "not called")

\* The result tells whether GetReleaseFinishTime was called, what is
\* appended to the results, and whether the loop goes on to the next
\* release (continue) or is left.
Iteration(finishCalled, finish, metric) ==
    [finishCalled |-> finishCalled, finish |-> finish, metric |-> metric,
     goesOn |-> TRUE]

\* A variant that appends a metric for a release whose finish time is not
\* known.
processReleaseUnfinished(release, extract, finish) ==
    IF extract.err # ErrNil
    THEN Iteration(FALSE, NotCalled, <<>>)
    ELSE Iteration(TRUE, finish,
                   <<DeploymentMetric(release, extract, finish)>>)
processRelease(release, extract, finish) ==
    IF extract.err # ErrNil
    THEN Iteration(FALSE, NotCalled, <<>>)
    ELSE IF finish.err # ErrNil
    THEN Iteration(TRUE, finish, <<>>)
    ELSE Iteration(TRUE, finish,
                   <<DeploymentMetric(release, extract, finish)>>)

(***************************************************************************)
(* CalculatePRDeploymentStats.  Go iterates over a map in an order it does *)
(* not fix, so the order of the groups in the result and the order of the  *)
(* SHAs in a group are choices: keyOrder lists the keys of prMap, and      *)
(* shaOrder gives for each key the list of the keys of its commitSHASet.   *)
(***************************************************************************)
\* A variant that also groups the deployments without a number.
prMapKeysWithEmpty(ds) ==
    {ds[i].PRNumber : i \in 1..Len(ds)}

\* The keys of prMap and the slice under a key.
prMapKeys(ds) ==
    {ds[i].PRNumber : i \in {j \in 1..Len(ds) : ds[j].PRNumber # <<>>}}

SameNumber(d, number) == d.PRNumber = number
prMapAt(ds, number) == SelectSeq(ds, LAMBDA d : SameNumber(d, number))

\* A variant that replaces the time by every later one.
BeforeReversed(t, u) == u < t

Before(t, u) == t < u
After(t, u) == t > u

\* The loop over a group from its k-th deployment on.
RECURSIVE firstCommitTime(_, _, _)
firstCommitTime(group, k, first) ==
    IF k > Len(group) THEN first
    ELSE firstCommitTime(group, k + 1,
                         IF Before(group[k].CommitTime, first)
                         THEN group[k].CommitTime ELSE first)

RECURSIVE lastFinishTime(_, _, _)
lastFinishTime(group, k, last) ==
    IF k > Len(group) THEN last
    ELSE lastFinishTime(group, k + 1,
                        IF After(group[k].ReleaseFinishTime, last)
                        THEN group[k].ReleaseFinishTime ELSE last)

commitSHASet(group) == {group[k].CommitSHA : k \in 1..Len(group)}

\* The lists that hold every element of a set once.
Orders(S) ==
    {f \in [1..Cardinality(S) -> S] : \A x \in S : \E k \in DOMAIN f : f[k] = x}

groupStats(number, group, first, last, shas) ==
    [PRNumber |-> number,
     DeploymentCount |-> Len(group),
     FirstCommitTime |-> first,
     LastFinishTime |-> last,
     FirstToLastDelta |-> Sub(last, first),
     CommitSHAs |-> shas,
     Deployments |-> group]

PRDeploymentStats(number, group, shas) ==
    groupStats(number, group,
               firstCommitTime(group, 1, group[1].CommitTime),
               lastFinishTime(group, 1, group[1].ReleaseFinishTime),
               shas)

CalculatePRDeploymentStats(ds, keyOrder, shaOrder) ==
    [k \in 1..Len(keyOrder) |->
        PRDeploymentStats(keyOrder[k], prMapAt(ds, keyOrder[k]),
                          shaOrder[keyOrder[k]])]

(***************************************************************************)
(* calculateMedian.  A time.Duration is a count of nanoseconds; the        *)
(* durations here stay far from the ends of int64, so they are integers.   *)
(* The call sorts the slice it is given, which the caller sees.            *)
(***************************************************************************)
\* A variant that rounds the quotient down.
QuoFloor(a, b) == a \div b

\* Go's integer division, which rounds toward zero.
Quo(a, b) == IF a >= 0 THEN a \div b ELSE -((-a) \div b)

\* x put into an ascending list before its first greater element.
RECURSIVE insertSorted(_, _)
insertSorted(sorted, x) ==
    IF sorted = <<>> THEN <<x>>
    ELSE IF x < Head(sorted) THEN <<x>> \o sorted
    ELSE <<Head(sorted)>> \o insertSorted(Tail(sorted), x)

RECURSIVE slicesSort(_)
slicesSort(s) ==
    IF s = <<>> THEN <<>>
    ELSE insertSorted(slicesSort(Tail(s)), Head(s))

\* n/2 counts from 0 in Go, so durations[n/2] is the element n \div 2 + 1.
medianOfSorted(sorted, n) ==
    IF n % 2 # 0 THEN sorted[(n \div 2) + 1]
    ELSE Quo(sorted[n \div 2] + sorted[(n \div 2) + 1], 2)

\* The value returned and the slice as the call leaves it.
calculateMedian(durations) ==
    IF Len(durations) = 0
    THEN [value |-> 0, durations |-> durations]
    ELSE [value |-> medianOfSorted(slicesSort(durations), Len(durations)),
          durations |-> slicesSort(durations)]

(***************************************************************************)
(* ProcessFlakyTests.  A pointer is the set of what it points to.          *)
(* sort.Slice promises no order among elements that less does not tell     *)
(* apart, so the sorted slice is any rearrangement that less accepts.      *)
(***************************************************************************)
FlakyTestMetric(test) ==
    [TestName |-> test.TestName,
     ClassName |-> test.ClassName,
     TimesFlaky |-> test.TimesFlaky,
     LastOccurred |-> {run.CreatedAt : run \in test.PipelineRun}]

flakyResults(tests) == [i \in 1..Len(tests) |-> FlakyTestMetric(tests[i])]

\* A variant that puts the tests that flaked least first.
lessAscending(a, b) == a.TimesFlaky < b.TimesFlaky

less(a, b) == a.TimesFlaky > b.TimesFlaky

isSorted(slice) ==
    \A i, j \in DOMAIN slice : i < j => ~less(slice[j], slice[i])

sortSlice(slice) ==
    {sorted \in {[i \in DOMAIN slice |-> slice[p[i]]] :
                    p \in Orders(DOMAIN slice)} : isSorted(sorted)}

\* The slices ProcessFlakyTests may return.
ProcessFlakyTests(tests) == sortSlice(flakyResults(tests))

(***************************************************************************)
(* The FileCache under any sequence of Set, Get and Delete calls and clock *)
(* advances.                                                               *)
(***************************************************************************)
NoOp == [op |-> "none", key |-> "", value |-> NoValue, ttl |-> 0, err |-> ErrNil]

CacheAt(clock) ==
    /\ files = <<>>
    /\ now = clock
    /\ lastOp = NoOp
    /\ prevOp = NoOp
    /\ lastSet = [k \in CacheKeys |-> {}]

CacheIdle == CacheAt(0)

KeysIdle == kbCall = NoKeyCall

PRIdle ==
    /\ denylist = <<>>
    /\ prCount = 0
    /\ pr = {}
    /\ prReviews = <<>>
    /\ prFetch = "none"
    /\ results = <<>>
    /\ reviewFetches = <<>>
    /\ fetchFailed = {}
    /\ survivors = <<>>
    /\ reviewsHeld = 0

NoCall ==
    [fn |-> "none", getErr |-> ErrNil, apiCalled |-> FALSE, apiErr |-> FALSE,
     apiValue |-> NoValue, setErrs |-> <<>>, value |-> NoValue, err |-> ErrNil]

ClientIdle ==
    /\ call = NoCall
    /\ calls = 0
    /\ elapses = 0

NoCommit ==
    [sha |-> <<>>, message |-> "", author |-> "", date |-> 0, files |-> <<>>]

NoRelease == [Name |-> <<>>, Annotations |-> <<>>, CreateTime |-> 0]

NoSearch ==
    [fn |-> "none", tagCommit |-> {}, release |-> NoRelease,
     tagsErr |-> FALSE, serviceErr |-> FALSE, out |-> ExtractFailed(ErrNil)]

MatchIdle ==
    /\ commit = NoCommit
    /\ searchPR = 0
    /\ searchBranch = <<>>
    /\ found = NoSearch

DeployIdle ==
    /\ relCount = 0
    /\ taking = {}
    /\ deployments = <<>>
    /\ taken = <<>>

NoResult == [fn |-> "none", value |-> <<>>]

StatIdle ==
    /\ statArg = <<>>
    /\ statOut = NoResult

\* A Go slice: nil, or a slice with its elements.
NilSlice == [isNil |-> TRUE, elems |-> <<>>]
SliceOf(s) == [isNil |-> FALSE, elems |-> s]

\* A Go error: nil, or an error with its message, a sequence of the pieces
\* fmt.Errorf puts together.
NoError == [isNil |-> TRUE, msg |-> <<>>]
Errorf(m) == [isNil |-> FALSE, msg |-> m]

NoPage == [kind |-> "none", status |-> 0, tests |-> NilSlice, token |-> ""]
NotStarted == [state |-> "idle", tests |-> NilSlice, err |-> NoError]

CircleIdle ==
    /\ nextPageToken = ""
    /\ allTests = NilSlice
    /\ pageCount = 0
    /\ pageAnswer = NoPage
    /\ flakyReturn = NotStarted

NoCommand == [tool |-> "none", usage |-> FALSE, since |-> <<>>,
              until |-> <<>>, credential |-> ""]
NotRun == [state |-> "idle", exit |-> 0, fetches |-> 0, printed |-> FALSE]

CliIdle ==
    /\ cliArgs = NoCommand
    /\ cliRun = NotRun

ServiceIdle == releaseRollouts = <<>>

NoTagsRepo == [owner |-> "", repo |-> ""]

TagIdle ==
    /\ tagsArg = NoTagsRepo
    /\ tagLog = <<>>
    /\ candidatesHeld = 0

SideIdle == CircleIdle /\ CliIdle /\ ServiceIdle /\ TagIdle

TrackerIdle == MatchIdle /\ DeployIdle /\ StatIdle /\ SideIdle

ReviewIdle == CacheIdle /\ KeysIdle /\ PRIdle /\ ClientIdle

InitCache == ReviewIdle /\ TrackerIdle

CallSet(key, value, ttl) ==
    LET r == Set(files, now, key, value, ttl, "ok") IN
    /\ files' = r.files
    /\ lastOp' = [op |-> "Set", key |-> key, value |-> value, ttl |-> ttl,
                  err |-> r.err]
    /\ prevOp' = lastOp
    /\ lastSet' = IF r.err = ErrNil
                  THEN [lastSet EXCEPT ![key] =
                            {[value |-> value, ttl |-> ttl, at |-> now]}]
                  ELSE lastSet
    /\ UNCHANGED <<now, keyVars, prVars, clientVars, trackerVars>>

CallGet(key) ==
    LET r == Get(files, now, key, Payloads, "ok") IN
    /\ files' = r.files
    /\ lastOp' = [op |-> "Get", key |-> key, value |-> r.value, ttl |-> 0,
                  err |-> r.err]
    /\ prevOp' = lastOp
    /\ UNCHANGED <<now, lastSet, keyVars, prVars, clientVars, trackerVars>>

CallDelete(key) ==
    LET r == Delete(files, key, "ok") IN
    /\ files' = r.files
    /\ lastOp' = [op |-> "Delete", key |-> key, value |-> NoValue, ttl |-> 0,
                  err |-> r.err]
    /\ prevOp' = lastOp
    /\ lastSet' = [lastSet EXCEPT ![key] = {}]
    /\ UNCHANGED <<now, keyVars, prVars, clientVars, trackerVars>>

Tick ==
    /\ now < MaxClock
    /\ now' = now + 1
    /\ lastOp' = [NoOp EXCEPT !.op = "Tick"]
    /\ prevOp' = lastOp
    /\ UNCHANGED <<files, lastSet, keyVars, prVars, clientVars, trackerVars>>

SetStep == \E k \in CacheKeys, v \in Payloads \cup {Unencodable}, ttl \in TTLs :
               CallSet(k, v, ttl)
GetStep == \E k \in CacheKeys : CallGet(k)
DeleteStep == \E k \in CacheKeys : CallDelete(k)

NextCache == SetStep \/ GetStep \/ DeleteStep \/ Tick

SpecCache == InitCache /\ [][NextCache]_vars

(***************************************************************************)
(* The key functions of the CacheKeyBuilder applied to any arguments.      *)
(***************************************************************************)
\* The arguments of two calls of one key function, not yet made.
InitKeys ==
    /\ CacheIdle
    /\ PRIdle
    /\ ClientIdle
    /\ TrackerIdle
    /\ \E fn \in KeyFunctions : \E a \in KeyArgs(fn), b \in KeyArgs(fn) :
           kbCall = [fn |-> fn, a |-> a, b |-> b, done |-> FALSE,
                     keyA |-> "", keyB |-> ""]

\* The key function is called with each argument list.
BuildKeys ==
    /\ ~kbCall.done
    /\ kbCall' = [kbCall EXCEPT !.done = TRUE,
                                !.keyA = keyOf(kbCall.fn, kbCall.a),
                                !.keyB = keyOf(kbCall.fn, kbCall.b)]
    /\ UNCHANGED <<cacheVars, prVars, clientVars, trackerVars>>

NextKeys == BuildKeys

SpecKeys == InitKeys /\ [][NextKeys]_vars

(***************************************************************************)
(* ProcessPullRequests against a client that holds any reviews and may     *)
(* fail.  No tags repository is configured (tagsOwner = ""), so TagCommits *)
(* stays nil.  Two families of runs: a list of up to MaxPRs pull requests   *)
(* whose reviews number at most MaxLoopReviews in all and are all          *)
(* submitted at MaxTime, one iteration of the loop at a time; and a list   *)
(* of one pull request with up to MaxReviews reviews submitted at any      *)
(* times.                                                                  *)
(***************************************************************************)
Logins == {"alice", "bob", "bot"}

\* A review whose user is null has the login "" (GetUser().GetLogin()).
ReviewerLogins == Logins \cup {""}

\* nil, a list of names, and strings.Split("", ",") of an empty -exclude.
Denylists == {<<>>, <<"bot">>, <<"">>}
ReviewStates == {"PENDING", "APPROVED", "CHANGES_REQUESTED"}
Times == 1..MaxTime

Reviews == [User : ReviewerLogins, State : ReviewStates, SubmittedAt : Times]

LoopReviews == {r \in Reviews : r.SubmittedAt = MaxTime}

\* The lists of at most n reviews out of the set revs.
ReviewLists(revs, n) == UNION {[1..k -> revs] : k \in 0..n}

\* The states a pull request of GitHub can be in: open, closed without a
\* merge, merged; a draft is open or closed without a merge.
PRShapes ==
    {[Draft |-> FALSE, State |-> "open", MergedAt |-> 0],
     [Draft |-> TRUE, State |-> "open", MergedAt |-> 0],
     [Draft |-> FALSE, State |-> "closed", MergedAt |-> 0],
     [Draft |-> TRUE, State |-> "closed", MergedAt |-> 0],
     [Draft |-> FALSE, State |-> "closed", MergedAt |-> MaxTime]}

\* The pull requests the loop may take as element number n of prs.
PullRequests(n) ==
    {[Number |-> n, Title |-> "title", Draft |-> sh.Draft, State |-> sh.State,
      MergedAt |-> sh.MergedAt, User |-> u, CreatedAt |-> 1] :
        sh \in PRShapes, u \in Logins}

InitPR ==
    /\ CacheAt(MaxTime)
    /\ KeysIdle
    /\ ClientIdle
    /\ TrackerIdle
    /\ denylist \in Denylists
    /\ prCount = 0
    /\ pr = {}
    /\ prReviews = <<>>
    /\ prFetch = "none"
    /\ results = <<>>
    /\ reviewFetches = <<>>
    /\ fetchFailed = {}
    /\ survivors = <<>>
    /\ reviewsHeld = 0

\* What the client can answer to FetchPullRequestReviews: an error, or a
\* list of at most n reviews out of the set revs.
ClientAnswers(revs, n) ==
    {[err |-> TRUE, reviews |-> <<>>]} \cup
    {[err |-> FALSE, reviews |-> list] : list \in ReviewLists(revs, n)}

NoAnswer == [err |-> TRUE, reviews |-> <<>>]

\* The loop over prs takes its next element p; answer is what the client
\* returns if this iteration calls FetchPullRequestReviews.
ProcessNext(p, answer) ==
    LET r == processPR(p, denylist, answer, now, <<>>) IN
    /\ prCount' = prCount + 1
    /\ pr' = {p}
    /\ prReviews' = IF r.fetched THEN answer.reviews ELSE <<>>
    /\ prFetch' = IF ~r.fetched THEN "none"
                  ELSE IF answer.err THEN "error" ELSE "ok"
    /\ results' = results \o r.metric
    /\ reviewFetches' = IF r.fetched THEN Append(reviewFetches, p.Number)
                        ELSE reviewFetches
    /\ fetchFailed' = IF r.fetched /\ answer.err
                      THEN fetchFailed \cup {p.Number}
                      ELSE fetchFailed
    /\ reviewsHeld' = IF r.fetched THEN reviewsHeld + Len(answer.reviews)
                      ELSE reviewsHeld
    /\ survivors' = IF ~p.Draft
                       /\ ~(p.State = "closed" /\ p.MergedAt = 0)
                       /\ ~(\E i \in 1..Len(denylist) : denylist[i] = p.User)
                    THEN Append(survivors, p.Number)
                    ELSE survivors
    /\ UNCHANGED <<denylist, cacheVars, keyVars, clientVars, trackerVars>>

\* The client is a black box: its answer exists only for an iteration that
\* calls it.
ProcessWith(p, revs, n) ==
    IF processPR(p, denylist, NoAnswer, now, <<>>).fetched
    THEN \E answer \in ClientAnswers(revs, n) : ProcessNext(p, answer)
    ELSE ProcessNext(p, NoAnswer)

\* One iteration of the loop over a list of up to MaxPRs pull requests.
ProcessStep ==
    /\ prCount < MaxPRs
    /\ \E p \in PullRequests(prCount + 1) :
           ProcessWith(p, LoopReviews, MaxLoopReviews - reviewsHeld)

NextPR == ProcessStep

SpecPR == InitPR /\ [][NextPR]_vars

\* The only iteration of the loop over a list of one pull request.
ProcessOnly ==
    /\ prCount = 0
    /\ \E p \in PullRequests(1) : ProcessWith(p, Reviews, MaxReviews)

NextReviews == ProcessOnly

SpecReviews == InitPR /\ [][NextReviews]_vars

(***************************************************************************)
(* The cached clients over one cache directory, under any sequence of      *)
(* fetches, any answers of the wrapped clients and any condition of the    *)
(* file system; the clock moves on between fetches.  A run is of one of    *)
(* the three clients and starts on 2024-03-01 at 00:00 UTC with an empty   *)
(* directory.                                                              *)
(***************************************************************************)
RunStart == 24 * 738945

\* 2024-01-01
StartDate == Time(24 * 738885, 0)

\* 2024-02-01 and 2024-02-23, seven days before the run starts.
EndDates == {Time(24 * 738916, 0), Time(24 * 738938, 0)}

\* What the operating system does to the cache calls of one fetch.
DiskConditions ==
    {"ok", "readError", "mkdirError", "writeError", "removeError"}

PRNumbers == {1, 2}
CachedPRs == [Number : PRNumbers, State : {"open", "closed"}]

\* []*github.PullRequest
PRListType ==
    {PRList(<<>>),
     PRList(<<[Number |-> 1, State |-> "closed"]>>),
     PRList(<<[Number |-> 1, State |-> "open"],
              [Number |-> 2, State |-> "closed"]>>)}

\* *github.PullRequest
PRPointerType == {PRPointer({})} \cup {PRPointer({p}) : p \in CachedPRs}

\* []*github.PullRequestReview
ReviewListType ==
    {ReviewList(<<>>),
     ReviewList(<<[User |-> "bob", State |-> "APPROVED"]>>),
     ReviewList(<<[User |-> "bob", State |-> "CHANGES_REQUESTED"],
                  [User |-> "carol", State |-> "APPROVED"]>>)}

\* time.Time
TimeType == {TimeValue(Time(RunStart - 1, 0)), TimeValue(Time(RunStart - 2, 1))}

\* []FlakyTest
FlakyTestListType ==
    {FlakyTestList(<<>>),
     FlakyTestList(<<[TestName |-> "t1", ClassName |-> "c", TimesFlaky |-> 2]>>),
     FlakyTestList(<<[TestName |-> "t1", ClassName |-> "c", TimesFlaky |-> 2],
                     [TestName |-> "t2", ClassName |-> "c", TimesFlaky |-> 1]>>)}

Releases == [Name : {"rel1"}, RenderState : {"SUCCEEDED", "FAILED", "IN_PROGRESS"}]

\* What a wrapped client can answer: an error with the zero value, or a
\* value of its result type.
APIAnswers(type, zero) ==
    {[err |-> TRUE, value |-> zero]} \cup {[err |-> FALSE, value |-> v] : v \in type}

InitCached ==
    /\ CacheAt(RunStart)
    /\ KeysIdle
    /\ PRIdle
    /\ ClientIdle
    /\ TrackerIdle

\* The fetch fn has run with the outcome r; api is what the wrapped client
\* answered if it was called.
Returned(fn, r, api) ==
    /\ files' = r.files
    /\ call' = [fn |-> fn, getErr |-> r.getErr, apiCalled |-> r.apiCalled,
                apiErr |-> r.apiCalled /\ api.err,
                apiValue |-> IF r.apiCalled THEN api.value ELSE NoValue,
                setErrs |-> r.setErrs, value |-> r.value, err |-> r.err]
    /\ calls' = calls + 1
    /\ UNCHANGED <<now, lastOp, prevOp, lastSet, elapses, keyVars, prVars, trackerVars>>

CallFetchPullRequests ==
    /\ calls < MaxCalls
    /\ call.fn \in {"none", "FetchPullRequests", "FetchPullRequestReviews"}
    /\ \E endDate \in EndDates, io \in DiskConditions,
          api \in APIAnswers(PRListType, PRList(<<>>)) :
           Returned("FetchPullRequests",
                    CachedFetchPullRequests(files, now, "a", "b", StartDate,
                                            endDate, PRListType, api, io),
                    api)

CallFetchPullRequestReviews ==
    /\ calls < MaxCalls
    /\ call.fn \in {"none", "FetchPullRequests", "FetchPullRequestReviews"}
    /\ \E prNumber \in PRNumbers, io \in DiskConditions,
          api \in APIAnswers(ReviewListType, ReviewList(<<>>)) :
           Returned("FetchPullRequestReviews",
                    CachedFetchPullRequestReviews(files, now, "a", "b", prNumber,
                                                  ReviewListType, PRPointerType,
                                                  api, io),
                    api)

CallGetReleaseFinishTime ==
    /\ calls < MaxCalls
    /\ call.fn \in {"none", "GetReleaseFinishTime"}
    /\ \E release \in Releases, io \in DiskConditions,
          api \in APIAnswers(TimeType, TimeValue(Time(0, 0))) :
           Returned("GetReleaseFinishTime",
                    CachedGetReleaseFinishTime(files, now, "proj", "us", release,
                                               TimeType, api, io),
                    api)

CallFetchFlakyTests ==
    /\ calls < MaxCalls
    /\ call.fn \in {"none", "FetchFlakyTests"}
    /\ \E io \in DiskConditions,
          api \in APIAnswers(FlakyTestListType, FlakyTestList(<<>>)) :
           Returned("FetchFlakyTests",
                    CachedFetchFlakyTests(files, now, "a", "b", FlakyTestListType,
                                          api, io),
                    api)

\* More than an hour, or more than a day, goes by.
Elapse ==
    /\ elapses < MaxElapses
    /\ \E d \in {ShortTTL + 1, LongTTL + 1} : now' = now + d
    /\ elapses' = elapses + 1
    /\ UNCHANGED <<files, lastOp, prevOp, lastSet, call, calls, keyVars, prVars, trackerVars>>

NextCached ==
    \/ CallFetchPullRequests
    \/ CallFetchPullRequestReviews
    \/ CallGetReleaseFinishTime
    \/ CallFetchFlakyTests
    \/ Elapse

SpecCached == InitCached /\ [][NextCached]_vars

(***************************************************************************)
(* One search of one tags-repository commit: the PR-search for a pull      *)
(* request number and head branch, or the release-search for a release     *)
(* whose git-sha annotation names the commit.                              *)
(***************************************************************************)
Key == <<"a", ":", " ">>
Stamp ==
    <<"2", "0", "2", "4", "_", "0", "1", "_", "1", "5", "_", "_",
      "1", "4", "_", "3", "0", "_", "4", "5", "_", "_">>
ShaA == <<"a", "b", "c", "d", "e", "f", "0">>
ShaB == <<"a", "b", "c", "d", "e", "f", "1">>
ShaC == <<"a", "b", "c", "d", "e", "f", "2">>
ShaD == <<"a", "b", "c", "d", "e", "f", "3">>
ShortSha == <<"a", "b", "c", "d", "e", "f">>
One == <<"1">>
Twelve == <<"1", "2">>
BranchFB == <<"f", "b">>
BranchF == <<"f">>
BranchFDotB == <<"f", ".", "b">>
BranchFXB == <<"f", "x", "b">>
BranchMain == <<"m", "a", "i", "n">>

DirectLine(mark, key, number, sha) ==
    mark \o key \o PullDash \o number \o <<"_">> \o sha

BranchLine(mark, key, branch, sha) ==
    mark \o key \o Stamp \o branch \o Underscores \o sha

\* The lines a patch is made of: "+a: pull-1_abcdef0", the same for pull
\* request 12, as the content of a context line (" +a: ..."), without its
\* key and with a SHA of six digits, and time-stamped lines of the branches
\* fb, fxb and main.
DiffLines ==
    {DirectLine(Added, Key, One, ShaA),
     DirectLine(Added, Key, Twelve, ShaB),
     DirectLine(<<" ", "+">>, Key, One, ShaA),
     DirectLine(Added, <<>>, One, ShaA),
     DirectLine(Added, Key, One, ShortSha),
     BranchLine(Added, Key, BranchFB, ShaC),
     BranchLine(Added, Key, BranchFXB, ShaC),
     BranchLine(Added, Key, BranchMain, ShaD)}

RECURSIVE joinLines(_)
joinLines(lines) ==
    IF Len(lines) = 0 THEN <<>>
    ELSE IF Len(lines) = 1 THEN lines[1]
    ELSE lines[1] \o <<NewLine>> \o joinLines(Tail(lines))

NoPatch == [Patch |-> {}]
FilesOf(m) == {[Patch |-> {joinLines(ls)}] : ls \in [1..m -> DiffLines]}

\* The lists of k files whose patches hold n lines at most in all.
RECURSIVE FileLists(_, _)
FileLists(k, n) ==
    IF k = 0 THEN {<<>>}
    ELSE {<<NoPatch>> \o rest : rest \in FileLists(k - 1, n)}
         \cup UNION {{<<f>> \o rest : f \in FilesOf(m),
                                     rest \in FileLists(k - 1, n - m)} :
                     m \in 0..n}

TagsSHA == <<"t", "1">>
Commits ==
    {[sha |-> TagsSHA, message |-> "bump", author |-> "deployer",
      date |-> MaxTime, files |-> fs] :
        fs \in UNION {FileLists(k, MaxDiffLines) : k \in 0..MaxFiles}}

SearchNumbers == {1, 12}
SearchBranches == {<<>>, BranchFB, BranchF, BranchFDotB}

InitMatch ==
    /\ ReviewIdle
    /\ SideIdle
    /\ DeployIdle
    /\ StatIdle
    /\ commit \in Commits
    /\ searchPR = 0
    /\ searchBranch = <<>>
    /\ found = NoSearch

AnalyzeStep ==
    /\ found.fn = "none"
    /\ \E number \in SearchNumbers, branch \in SearchBranches :
          /\ searchPR' = number
          /\ searchBranch' = branch
          /\ found' = [found EXCEPT
                         !.fn = "analyze",
                         !.tagCommit =
                             analyzeCommitDiffForPRReference(commit, number,
                                                             branch)]
    /\ UNCHANGED <<commit, reviewVars, sideVars, deployVars, statVars>>

ReleaseOf(c) ==
    [Name |-> <<"r", "1">>, Annotations |-> (GitSHA :> c.sha),
     CreateTime |-> 1]

ServiceAnswers == {[err |-> TRUE, date |-> 0], [err |-> FALSE, date |-> 1]}

ExtractStep ==
    /\ found.fn = "none"
    /\ \E tagsErr \in BOOLEAN, service \in ServiceAnswers :
          found' = [found EXCEPT
                      !.fn = "extract",
                      !.release = ReleaseOf(commit),
                      !.tagsErr = tagsErr,
                      !.serviceErr = service.err,
                      !.out = ExtractCommitSHAFromRelease(
                                  ReleaseOf(commit),
                                  [err |-> tagsErr, commit |-> commit],
                                  service)]
    /\ UNCHANGED <<commit, searchPR, searchBranch, reviewVars, sideVars, deployVars,
                   statVars>>

NextMatch == AnalyzeStep \/ ExtractStep

SpecMatch == InitMatch /\ [][NextMatch]_vars

(***************************************************************************)
(* The release-search alone, over diffs made of a line of pull request 1,  *)
(* time-stamped lines of the branches fb and main, and a time-stamped line *)
(* of the branch fb that goes on with " __main__" after its SHA.           *)
(***************************************************************************)
LinkLines ==
    {DirectLine(Added, Key, One, ShaA),
     BranchLine(Added, Key, BranchFB, ShaC),
     BranchLine(Added, Key, BranchMain, ShaD),
     BranchLine(Added, Key, BranchFB, ShaB) \o <<" ">> \o MainToken}

LinkFilesOf(m) == {[Patch |-> {joinLines(ls)}] : ls \in [1..m -> LinkLines]}

RECURSIVE LinkFileLists(_, _)
LinkFileLists(k, n) ==
    IF k = 0 THEN {<<>>}
    ELSE {<<NoPatch>> \o rest : rest \in LinkFileLists(k - 1, n)}
         \cup UNION {{<<f>> \o rest : f \in LinkFilesOf(m),
                                     rest \in LinkFileLists(k - 1, n - m)} :
                     m \in 0..n}

LinkCommits ==
    {[sha |-> TagsSHA, message |-> "bump", author |-> "deployer",
      date |-> MaxTime, files |-> fs] :
        fs \in UNION {LinkFileLists(k, MaxDiffLines) : k \in 0..MaxFiles}}

InitLink ==
    /\ ReviewIdle
    /\ SideIdle
    /\ DeployIdle
    /\ StatIdle
    /\ commit \in LinkCommits
    /\ searchPR = 0
    /\ searchBranch = <<>>
    /\ found = NoSearch

NextLink == ExtractStep

SpecLink == InitLink /\ [][NextLink]_vars

(***************************************************************************)
(* ProcessDeployments over a list of up to MaxReleases releases.  Each     *)
(* iteration takes the next release together with what GitHub and Cloud    *)
(* Deploy answer for it; an answer that is never asked for is left out.    *)
(***************************************************************************)
ReleaseName(i) == <<"p", "/", "r">> \o Itoa(i)

TagsURL ==
    <<"h", ":", "/", "/", "g", "/", "c", "o", "m", "m", "i", "t", "/">>
    \o TagsSHA

\* No annotations; the SHA as git-sha; the SHA at the end of the commit URL;
\* an empty git-sha beside a commit URL.
LoopAnnotations ==
    {<<>>,
     GitSHA :> TagsSHA,
     CommitURL :> TagsURL,
     (GitSHA :> <<>>) @@ (CommitURL :> TagsURL)}

Releases_(i) ==
    {[Name |-> ReleaseName(i), Annotations |-> a, CreateTime |-> 1] :
        a \in LoopAnnotations}

\* Tags-repository commits: without files, with a line of pull request 1,
\* with a line of the main branch, with a line of the branch fb.
LoopCommits ==
    {[sha |-> TagsSHA, message |-> "bump", author |-> "deployer",
      date |-> 1, files |-> fs] :
        fs \in {<<>>,
                <<[Patch |-> {DirectLine(Added, Key, One, ShaA)}]>>,
                <<[Patch |-> {BranchLine(Added, Key, BranchMain, ShaD)}]>>,
                <<[Patch |-> {BranchLine(Added, Key, BranchFB, ShaC)}]>>}}

NoTags == [err |-> TRUE, commit |-> NoCommit]
TagsAnswers == {NoTags} \cup {[err |-> FALSE, commit |-> c] : c \in LoopCommits}

NoService == [err |-> TRUE, date |-> 0]
CommitTimes == 1..MaxTime
ServiceTimes == {[err |-> FALSE, date |-> t] : t \in CommitTimes}

Rollout(state, end) == [State |-> state, DeployEndTime |-> end]

\* What ListRollouts yields: no rollout; rollouts that failed or succeeded,
\* with or without an end time, in either order of their end times; and a
\* listing that fails at once or after a succeeded rollout.
NoListing == [rollouts |-> <<>>, err |-> FALSE]
Listings ==
    {[rollouts |-> rs, err |-> FALSE] :
        rs \in {<<>>,
                <<Rollout(Failed_, {1})>>,
                <<Rollout(Succeeded, {})>>,
                <<Rollout(Succeeded, {1})>>,
                <<Rollout(Succeeded, {3})>>,
                <<Rollout(Succeeded, {1}), Rollout(Succeeded, {3})>>,
                <<Rollout(Succeeded, {3}), Rollout(Succeeded, {1})>>,
                <<Rollout(Failed_, {3}), Rollout(Succeeded, {1})>>,
                <<Rollout(Succeeded, {1}), Rollout(Failed_, {})>>}}
    \cup {[rollouts |-> rs, err |-> TRUE] :
            rs \in {<<>>, <<Rollout(Succeeded, {1})>>}}

Case(r, tags, service, listing) ==
    [release |-> r, tags |-> tags, service |-> service, listing |-> listing]

Annotated(i) == {r \in Releases_(i) : annotatedSHA(r) # <<>>}
Matched == {t \in TagsAnswers :
               ~t.err /\ filesCapture(t.commit.files, 1).sha # <<>>}

\* The releases whose commit is found: the one annotated with git-sha with
\* the commit of pull request 1, the one annotated with the commit URL with
\* the commit of the main branch.
Resolved(i) ==
    {rt \in Annotated(i) \X Matched :
        (GitSHA \in DOMAIN rt[1].Annotations)
            = (filesCapture(rt[2].commit.files, 1).prNumber # <<>>)}

\* An answer that is never asked for is left out of the case.
ReleaseCases(i) ==
    {Case(r, NoTags, NoService, NoListing) : r \in Releases_(i) \ Annotated(i)}
    \cup {Case(r, t, NoService, NoListing) :
             r \in Annotated(i), t \in TagsAnswers \ Matched}
    \cup {Case(rt[1], rt[2], NoService, NoListing) : rt \in Resolved(i)}
    \cup {Case(rt[1], rt[2], s, l) :
             rt \in Resolved(i), s \in ServiceTimes, l \in Listings}

InitDeploy ==
    /\ ReviewIdle
    /\ SideIdle
    /\ MatchIdle
    /\ DeployIdle
    /\ StatIdle

\* The iteration for the case c, given what the two calls return.
ProcessNextRelease(c, extract, p) ==
    /\ relCount' = relCount + 1
    /\ taking' = {[case |-> c, extract |-> extract,
                    finishCalled |-> p.finishCalled, finish |-> p.finish]}
    /\ deployments' = deployments \o p.metric
    /\ taken' = Append(taken, [name |-> c.release.Name,
                               extractErr |-> extract.err,
                               finishCalled |-> p.finishCalled,
                               finishErr |-> p.finish.err,
                               goesOn |-> p.goesOn])

ProcessWithExtract(c, extract) ==
    ProcessNextRelease(c, extract,
                       processRelease(c.release, extract,
                                      GetReleaseFinishTime(c.listing)))

ProcessRelease ==
    /\ relCount < MaxReleases
    /\ \A k \in 1..Len(taken) : taken[k].goesOn
    /\ \E c \in ReleaseCases(relCount + 1) :
          ProcessWithExtract(c, ExtractCommitSHAFromRelease(c.release, c.tags,
                                                            c.service))
    /\ UNCHANGED <<reviewVars, sideVars, matchVars, statVars>>

NextDeploy == ProcessRelease

SpecDeploy == InitDeploy /\ [][NextDeploy]_vars

(***************************************************************************)
(* One call of CalculatePRDeploymentStats on a list of up to MaxMetrics    *)
(* deployment metrics.                                                     *)
(***************************************************************************)
Two == <<"2">>
StatNumbers == {<<>>, One, Two}
StatSHAs == {ShaA, ShaB}
\* A commit time and a finish time.
StatTimes == {<<1, 2>>, <<2, 3>>}

Metrics ==
    {DeploymentMetric([Name |-> ReleaseName(1), Annotations |-> <<>>,
                       CreateTime |-> 1],
                      Extracted(sha, number, times[1], ErrNil),
                      FinishTime(times[2], ErrNil)) :
        number \in StatNumbers, sha \in StatSHAs, times \in StatTimes}

InitStats ==
    /\ ReviewIdle
    /\ SideIdle
    /\ MatchIdle
    /\ DeployIdle
    /\ statArg \in UNION {[1..n -> Metrics] : n \in 0..MaxMetrics}
    /\ statOut = NoResult

\* The orders in which the SHAs of the groups may be listed.
ShaOrders(ds) ==
    {f \in [prMapKeys(ds) -> UNION {Orders(S) : S \in SUBSET StatSHAs}] :
        \A number \in prMapKeys(ds) :
            f[number] \in Orders(commitSHASet(prMapAt(ds, number)))}

CallCalculatePRDeploymentStats ==
    /\ statOut.fn = "none"
    /\ \E keyOrder \in Orders(prMapKeys(statArg)),
          shaOrder \in ShaOrders(statArg) :
          statOut' = [fn |-> "CalculatePRDeploymentStats",
                      value |-> CalculatePRDeploymentStats(statArg, keyOrder,
                                                           shaOrder)]
    /\ UNCHANGED <<statArg, reviewVars, sideVars, matchVars, deployVars>>

NextStats == CallCalculatePRDeploymentStats

SpecStats == InitStats /\ [][NextStats]_vars

(***************************************************************************)
(* One call of calculateMedian on a slice of up to MaxDurations durations. *)
(* given keeps the slice as it was handed over.                            *)
(***************************************************************************)
DurationValues == {-3, -1, 0, 2, 5}

InitMedian ==
    /\ ReviewIdle
    /\ SideIdle
    /\ MatchIdle
    /\ DeployIdle
    /\ statArg \in UNION {[1..n -> DurationValues] : n \in 0..MaxDurations}
    /\ statOut = NoResult

CallCalculateMedian ==
    /\ statOut.fn = "none"
    /\ statOut' = [fn |-> "calculateMedian",
                   value |-> calculateMedian(statArg).value,
                   given |-> statArg]
    /\ statArg' = calculateMedian(statArg).durations
    /\ UNCHANGED <<reviewVars, sideVars, matchVars, deployVars>>

NextMedian == CallCalculateMedian

SpecMedian == InitMedian /\ [][NextMedian]_vars

(***************************************************************************)
(* One call of ProcessFlakyTests on a list of up to MaxTests flaky tests.  *)
(***************************************************************************)
PipelineRuns ==
    {{}, {[WorkflowID |-> "w", PipelineID |-> "p", CreatedAt |-> 1]}}

FlakyTests ==
    [TestName : {"t1", "t2"}, ClassName : {"c"}, TimesFlaky : {1, 2},
     PipelineRun : PipelineRuns]

InitFlaky ==
    /\ ReviewIdle
    /\ SideIdle
    /\ MatchIdle
    /\ DeployIdle
    /\ statArg \in UNION {[1..n -> FlakyTests] : n \in 0..MaxTests}
    /\ statOut = NoResult

CallProcessFlakyTests ==
    /\ statOut.fn = "none"
    /\ \E sorted \in ProcessFlakyTests(statArg) :
          statOut' = [fn |-> "ProcessFlakyTests", value |-> sorted]
    /\ UNCHANGED <<statArg, reviewVars, sideVars, matchVars, deployVars>>

NextFlaky == CallProcessFlakyTests

SpecFlaky == InitFlaky /\ [][NextFlaky]_vars

(***************************************************************************)
(* CircleCIClient.FetchFlakyTests                                          *)
(*                                                                         *)
(* The loop asks for one page per step.  What the server answers is an     *)
(* input of the step: the request fails in transport, or a response comes  *)
(* back with a status, and a 200 response has a body that decodes to the   *)
(* tests of the page and the token of the next page, or does not decode.   *)
(***************************************************************************)
MaxPages == 3

Org == "o"
Repo == "r"
BaseURL == "https://circleci.com/api/v2"

StatusCodes == {200, 404, 500}

\* resp.Status, the status line of the response.
StatusLine(n) ==
    Itoa(n) \o CASE n = 200 -> <<" OK">>
                 [] n = 404 -> <<" Not Found">>
                 [] n = 500 -> <<" Internal Server Error">>

PageTests == {NilSlice, SliceOf(<<>>), SliceOf(<<"t1">>), SliceOf(<<"t2">>)}
PageTokens == {"", "p2"}

PageAnswers ==
    {[kind |-> "transportError", status |-> 0, tests |-> NilSlice,
      token |-> ""]}
    \cup {[kind |-> "undecodable", status |-> 200, tests |-> NilSlice,
           token |-> ""]}
    \cup {[kind |-> "response", status |-> s, tests |-> NilSlice,
           token |-> ""] : s \in StatusCodes \ {200}}
    \cup {[kind |-> "response", status |-> 200, tests |-> t, token |-> k] :
             t \in PageTests, k \in PageTokens}

projectSlug(org, repo) == <<"gh/", org, "/", repo>>
endpointOf(slug) == <<BaseURL, "/insights/">> \o slug \o <<"/flaky-tests">>

\* append(a, b...)
append(a, b) == IF b.elems = <<>> THEN a ELSE SliceOf(a.elems \o b.elems)

PageResult(tests, token, err) == [tests |-> tests, token |-> token, err |-> err]

\* fetchFlakyTestsPage, given what the server answered.
fetchFlakyTestsPage(slug, a) ==
    IF a.kind = "transportError"
    THEN PageResult(NilSlice, "",
             Errorf(<<"failed to make request to ">> \o endpointOf(slug)
                        \o <<": ", "transport">>))
    ELSE IF a.status # 200
    THEN IF a.status = 404
         THEN PageResult(NilSlice, "",
                  Errorf(<<"Project ">> \o slug
                             \o <<" not found or flaky tests not available.",
                                  " This could mean:\n", "URL: ">>
                             \o endpointOf(slug)))
         ELSE PageResult(NilSlice, "",
                  Errorf(<<"API returned status ">> \o Itoa(a.status)
                             \o <<" for URL ">> \o endpointOf(slug)
                             \o <<": ">> \o StatusLine(a.status)))
    ELSE IF a.kind = "undecodable"
    THEN PageResult(NilSlice, "",
             Errorf(<<"failed to decode response: ", "json">>))
    ELSE PageResult(a.tests, a.token, NoError)

\* fmt.Errorf("failed to fetch flaky tests for project %s: %w", ...)
wrapFetchError(slug, err) ==
    Errorf(<<"failed to fetch flaky tests for project ">> \o slug
               \o <<": ">> \o err.msg)

InitCircle ==
    /\ ReviewIdle
    /\ MatchIdle
    /\ DeployIdle
    /\ StatIdle
    /\ CliIdle
    /\ ServiceIdle
    /\ TagIdle
    /\ nextPageToken = ""
    /\ allTests = NilSlice
    /\ pageCount = 0
    /\ pageAnswer = NoPage
    /\ flakyReturn = [state |-> "running", tests |-> NilSlice, err |-> NoError]

\* One iteration of the loop of FetchFlakyTests, given the page result.
FetchPage(a, page) ==
    /\ pageAnswer' = a
    /\ pageCount' = pageCount + 1
    /\ IF ~page.err.isNil
       THEN /\ flakyReturn' = [state |-> "returned", tests |-> NilSlice,
                               err |-> wrapFetchError(projectSlug(Org, Repo),
                                                      page.err)]
            /\ UNCHANGED <<allTests, nextPageToken>>
       ELSE /\ allTests' = append(allTests, page.tests)
            /\ IF page.token = ""
               THEN /\ flakyReturn' = [state |-> "returned",
                                       tests |-> allTests', err |-> NoError]
                    /\ UNCHANGED nextPageToken
               ELSE /\ nextPageToken' = page.token
                    /\ UNCHANGED flakyReturn

FetchFlakyTestsStep ==
    /\ flakyReturn.state = "running"
    /\ pageCount < MaxPages
    /\ \E a \in PageAnswers :
          FetchPage(a, fetchFlakyTestsPage(projectSlug(Org, Repo), a))
    /\ UNCHANGED <<cliVars, serviceVars, tagVars, reviewVars, matchVars,
                   deployVars, statVars>>

NextCircle == FetchFlakyTestsStep
SpecCircle == InitCircle /\ [][NextCircle]_vars

(***************************************************************************)
(* main of pr-tracker and of deploy-tracker                                *)
(*                                                                         *)
(* A command is the tool, whether its required arguments are there and     *)
(* well-formed, the texts of -since and -until, and GITHUB_TOKEN.  main    *)
(* runs in three steps: the setup up to the creation of the client, the    *)
(* fetch of the items of the date range, and the processing and printing   *)
(* of the results.                                                         *)
(***************************************************************************)
digitValue(c) == CHOOSE d \in 0..9 : ToString(d) = c

\* The number written by the n digits of s from position i on.
RECURSIVE numberAt(_, _, _)
numberAt(s, i, n) ==
    IF n = 0 THEN 0
    ELSE 10 * numberAt(s, i, n - 1) + digitValue(s[i + n - 1])

daysIn(month, year) ==
    daysBeforeMonth(month + 1, isLeap(year)) - daysBeforeMonth(month, isLeap(year))

\* Days from 0001-01-01 to the first day of a year.
daysBeforeYear(year) ==
    LET y == year - 1 IN 365 * y + y \div 4 - y \div 100 + y \div 400

Parsed(err, tm) == [err |-> err, tm |-> tm]

\* time.Parse("2006-01-02", s): four digits, two digits and two digits
\* between dashes, a month of the year and a day of that month; the result
\* is midnight UTC of the day.
parseDate(s) ==
    IF \/ Len(s) # 10
       \/ \E i \in {1, 2, 3, 4, 6, 7, 9, 10} : s[i] \notin Digits
       \/ s[5] # "-"
       \/ s[8] # "-"
    THEN Parsed(TRUE, Time(0, 0))
    ELSE LET year == numberAt(s, 1, 4)
             month == numberAt(s, 6, 2)
             day == numberAt(s, 9, 2)
         IN IF \/ month \notin 1..12
               \/ day < 1
               \/ day > daysIn(month, year)
            THEN Parsed(TRUE, Time(0, 0))
            ELSE Parsed(FALSE,
                        Time(24 * (daysBeforeYear(year)
                                     + daysBeforeMonth(month, isLeap(year))
                                     + day - 1), 0))

Y2024 == <<"2", "0", "2", "4">>
DateTexts ==
    {<<>>,
     Y2024 \o <<"-", "0", "2", "-", "2", "9">>,
     Y2024 \o <<"-", "0", "3", "-", "0", "1">>,
     Y2024 \o <<"-", "0", "3", "-", "0", "2">>,
     Y2024 \o <<"-", "0", "2", "-", "3", "0">>,
     Y2024 \o <<"-", "3", "-", "1">>}

Tools == {"pr-tracker", "deploy-tracker"}

Commands ==
    [tool : Tools, usage : BOOLEAN, since : DateTexts, until : DateTexts,
     credential : {"", "t"}]

InitCli ==
    /\ \E c \in {RunStart, RunStart + 1} : CacheAt(c)
    /\ KeysIdle
    /\ PRIdle
    /\ ClientIdle
    /\ MatchIdle
    /\ DeployIdle
    /\ StatIdle
    /\ CircleIdle
    /\ ServiceIdle
    /\ TagIdle
    /\ cliArgs \in Commands
    /\ cliRun = [state |-> "setup", exit |-> 0, fetches |-> 0,
                 printed |-> FALSE]

\* The start and the end of the date range: the flag if it is given, else
\* 30 days before the time of the call, and the time of the call.
startDateOf(a, clock) ==
    IF a.since # <<>> THEN parseDate(a.since)
    ELSE Parsed(FALSE, Time(clock - 30 * 24, 0))
endDateOf(a, clock) ==
    IF a.until # <<>> THEN parseDate(a.until)
    ELSE Parsed(FALSE, Time(clock, 0))

\* Whether main ends in os.Exit(1) or log.Fatal before it has a client.
setupFails(a, clock, cacheErr, clientErr) ==
    \/ ~a.usage
    \/ startDateOf(a, clock).err
    \/ endDateOf(a, clock).err
    \/ startDateOf(a, clock).tm.t > endDateOf(a, clock).tm.t
    \/ a.credential = ""
    \/ cacheErr
    \/ a.tool = "deploy-tracker" /\ clientErr

Exited(code) == [cliRun EXCEPT !.state = "exited", !.exit = code]

\* main, up to the creation of the client.
Setup ==
    /\ cliRun.state = "setup"
    /\ \E cacheErr \in BOOLEAN, clientErr \in BOOLEAN :
          cliRun' = IF setupFails(cliArgs, now, cacheErr, clientErr)
                    THEN Exited(1)
                    ELSE [cliRun EXCEPT !.state = "ready"]
    /\ UNCHANGED <<cliArgs, circleVars, serviceVars, tagVars, reviewVars,
                   matchVars, deployVars, statVars>>

\* main: FetchPullRequests or FetchTestEnvironmentReleases for the range.
FetchRange ==
    /\ cliRun.state = "ready"
    /\ \E err \in BOOLEAN :
          cliRun' = IF err
                    THEN [Exited(1) EXCEPT !.fetches = cliRun.fetches + 1]
                    ELSE [cliRun EXCEPT !.state = "fetched",
                                        !.fetches = cliRun.fetches + 1]
    /\ UNCHANGED <<cliArgs, circleVars, serviceVars, tagVars, reviewVars,
                   matchVars, deployVars, statVars>>

\* main: the processing of the items and printResults.
PrintResults ==
    /\ cliRun.state = "fetched"
    /\ cliRun' = [Exited(0) EXCEPT !.printed = TRUE]
    /\ UNCHANGED <<cliArgs, circleVars, serviceVars, tagVars, reviewVars,
                   matchVars, deployVars, statVars>>

NextCli == Setup \/ FetchRange \/ PrintResults
SpecCli == InitCli /\ [][NextCli]_vars

(***************************************************************************)
(* CachedDeployClient.GetReleaseFinishTime against a deployment service    *)
(* whose rollouts of the release come to their end between the calls.  The *)
(* wrapped client answers each call from the rollouts the service holds at *)
(* the time of the call.                                                   *)
(***************************************************************************)
MaxRollouts == 2

RolloutEndTimes == {RunStart - 2, RunStart - 1}
FinishTimeType == {TimeValue(Time(t, 0)) : t \in RolloutEndTimes}

InitFinish == InitCached

\* A rollout of the release ends, succeeded or failed.
RolloutEnds ==
    /\ Len(releaseRollouts) < MaxRollouts
    /\ \E state \in {Succeeded, Failed_}, t \in RolloutEndTimes :
          releaseRollouts' = Append(releaseRollouts, Rollout(state, {t}))
    /\ UNCHANGED <<reviewVars, matchVars, deployVars, statVars, circleVars,
                   cliVars, tagVars>>

\* What DeployClient.GetReleaseFinishTime answers for a listing.
finishAnswer(listing) ==
    [err |-> GetReleaseFinishTime(listing).err # ErrNil,
     value |-> TimeValue(Time(GetReleaseFinishTime(listing).time, 0))]

CallFinishTime ==
    /\ calls < MaxCalls
    /\ \E release \in Releases, io \in DiskConditions, listErr \in BOOLEAN :
          Returned("GetReleaseFinishTime",
                   CachedGetReleaseFinishTime(
                       files, now, "proj", "us", release, FinishTimeType,
                       finishAnswer([rollouts |-> releaseRollouts,
                                     err |-> listErr]),
                       io),
                   finishAnswer([rollouts |-> releaseRollouts,
                                 err |-> listErr]))

NextFinish == RolloutEnds \/ CallFinishTime \/ Elapse
SpecFinish == InitFinish /\ [][NextFinish]_vars

(***************************************************************************)
(* ProcessPullRequests with the arguments tagsOwner and tagsRepo.  An      *)
(* iteration takes the next pull request together with what the client     *)
(* answers: to FetchPullRequestReviews, to FetchCommits (an error, or the  *)
(* candidate commits of the window) and to FetchCommit of each candidate   *)
(* (an error, or the commit with its files).  tagLog records the calls.    *)
(***************************************************************************)
MaxCandidates == 2

\* 30 * 24 * time.Hour
SpeculativeWindow == 30 * 24

TagShapes ==
    {[Draft |-> FALSE, State |-> "open", MergedAt |-> 0, ClosedAt |-> 0],
     [Draft |-> TRUE, State |-> "open", MergedAt |-> 0, ClosedAt |-> 0],
     [Draft |-> FALSE, State |-> "closed", MergedAt |-> 0,
      ClosedAt |-> MaxTime],
     [Draft |-> FALSE, State |-> "closed", MergedAt |-> MaxTime,
      ClosedAt |-> MaxTime]}

\* pr.Head is a pointer: nil, or a branch with its ref.
Heads == {{}, {[Ref |-> BranchFB]}}

TagPullRequests(n) ==
    {[Number |-> n, Title |-> "title", Draft |-> sh.Draft, State |-> sh.State,
      MergedAt |-> sh.MergedAt, ClosedAt |-> sh.ClosedAt, User |-> u,
      CreatedAt |-> 1, Head |-> h] :
        sh \in TagShapes, u \in {"alice", "bot"}, h \in Heads}

\* The commits of the tags repository: one that names pull request 1, one
\* that names pull request 2, one of the branch fb.
Candidate(sha, fs) ==
    [sha |-> sha, message |-> "bump", author |-> "deployer", date |-> MaxTime,
     files |-> fs]
Candidates ==
    {Candidate(<<"t", "1">>,
               <<[Patch |-> {DirectLine(Added, Key, One, ShaA)}]>>),
     Candidate(<<"t", "2">>,
               <<[Patch |-> {DirectLine(Added, Key, <<"2">>, ShaB)}]>>),
     Candidate(<<"t", "3">>,
               <<[Patch |-> {BranchLine(Added, Key, BranchFB, ShaC)}]>>)}

NoTagListing == [err |-> TRUE, commits |-> <<>>]

\* What the client can answer to FetchCommits: an error, or up to n
\* commits, no commit twice.
TagListings(n) ==
    {NoTagListing} \cup
    {[err |-> FALSE, commits |-> cs] :
        cs \in {c \in UNION {[1..k -> Candidates] : k \in 0..n} :
                   \A i, j \in 1..Len(c) : c[i] = c[j] => i = j}}

TagRepos == {NoTagsRepo, [owner |-> "o", repo |-> ""],
             [owner |-> "o", repo |-> "tags"]}

TagFetch(fn, number, sha, start, end, err) ==
    [fn |-> fn, number |-> number, sha |-> sha, start |-> start, end |-> end,
     err |-> err]

prBranchOf(p) == IF p.Head = {} THEN <<>> ELSE (CHOOSE h \in p.Head : TRUE).Ref

\* A variant that searches up to the time of the call for every pull
\* request.
tagWindowToNow(p, clock) == [start |-> p.CreatedAt, end |-> clock]

\* startTime and endTime of checkPRTagCommits.
tagWindow(p, clock) ==
    [start |-> p.CreatedAt,
     end |-> IF p.State = "closed"
             THEN IF ~IsZero(p.MergedAt) THEN p.MergedAt
                  ELSE IF ~IsZero(p.ClosedAt) THEN p.ClosedAt
                  ELSE p.CreatedAt + SpeculativeWindow
             ELSE clock]

\* A variant of the loop that returns at the first match.
RECURSIVE scanCandidatesFirstOnly(_, _, _, _, _, _)
scanCandidatesFirstOnly(commits, errs, i, number, branch, tagCommits) ==
    IF i > Len(commits) \/ tagCommits.elems # <<>>
    THEN tagCommits
    ELSE IF errs[i]
    THEN scanCandidatesFirstOnly(commits, errs, i + 1, number, branch,
                                 tagCommits)
    ELSE IF analyzeCommitDiffForPRReference(commits[i], number, branch) # {}
    THEN scanCandidatesFirstOnly(
             commits, errs, i + 1, number, branch,
             append(tagCommits, SliceOf(<<TagCommit(commits[i])>>)))
    ELSE scanCandidatesFirstOnly(commits, errs, i + 1, number, branch,
                                 tagCommits)

\* The loop over the candidate commits from element i on; errs[i] tells
\* whether FetchCommit of the i-th fails.
RECURSIVE scanCandidates(_, _, _, _, _, _)
scanCandidates(commits, errs, i, number, branch, tagCommits) ==
    IF i > Len(commits)
    THEN tagCommits
    ELSE IF errs[i]
    THEN scanCandidates(commits, errs, i + 1, number, branch, tagCommits)
    ELSE IF analyzeCommitDiffForPRReference(commits[i], number, branch) # {}
    THEN scanCandidates(
             commits, errs, i + 1, number, branch,
             append(tagCommits, SliceOf(<<TagCommit(commits[i])>>)))
    ELSE scanCandidates(commits, errs, i + 1, number, branch, tagCommits)

checkPRTagCommits(p, clock, listing, errs) ==
    IF listing.err
    THEN SliceOf(<<>>)
    ELSE scanCandidates(listing.commits, errs, 1, p.Number, prBranchOf(p),
                        NilSlice)

\* A variant that asks a second time for a commit whose fetch failed.
tagCallsWithRetry(p, clock, listing, errs) ==
    <<TagFetch("FetchCommits", p.Number, <<>>, tagWindow(p, clock).start,
               tagWindow(p, clock).end, listing.err)>>
    \o [i \in 1..Len(listing.commits) |->
           TagFetch("FetchCommit", p.Number, listing.commits[i].sha, 0, 0,
                    errs[i])]
    \o [i \in 1..Len(SelectSeq(listing.commits, LAMBDA c :
                          \E k \in 1..Len(errs) :
                              errs[k] /\ listing.commits[k] = c)) |->
           TagFetch("FetchCommit", p.Number,
                    SelectSeq(listing.commits, LAMBDA c :
                        \E k \in 1..Len(errs) :
                            errs[k] /\ listing.commits[k] = c)[i].sha,
                    0, 0, TRUE)]

\* The calls checkPRTagCommits makes of the client.
tagCalls(p, clock, listing, errs) ==
    <<TagFetch("FetchCommits", p.Number, <<>>, tagWindow(p, clock).start,
               tagWindow(p, clock).end, listing.err)>>
    \o [i \in 1..Len(listing.commits) |->
           TagFetch("FetchCommit", p.Number, listing.commits[i].sha, 0, 0,
                    errs[i])]

configured(arg) == arg.owner # "" /\ arg.repo # ""

InitTags ==
    /\ CacheAt(MaxTime + 1)
    /\ KeysIdle
    /\ ClientIdle
    /\ MatchIdle
    /\ DeployIdle
    /\ StatIdle
    /\ CircleIdle
    /\ CliIdle
    /\ ServiceIdle
    /\ denylist = <<"bot">>
    /\ prCount = 0
    /\ pr = {}
    /\ prReviews = <<>>
    /\ prFetch = "none"
    /\ results = <<>>
    /\ reviewFetches = <<>>
    /\ fetchFailed = {}
    /\ survivors = <<>>
    /\ reviewsHeld = 0
    /\ tagsArg \in TagRepos
    /\ tagLog = <<>>
    /\ candidatesHeld = 0

\* The loop over prs takes its next element p; answer, listing and errs are
\* what the client returns to the calls this iteration makes.
ProcessTagged(p, answer, listing, errs) ==
    /\ prCount' = prCount + 1
    /\ pr' = {p}
    /\ IF skipsPR(p, denylist)
       THEN /\ prFetch' = "none"
            /\ UNCHANGED <<results, reviewFetches, fetchFailed, survivors,
                           tagLog, candidatesHeld>>
       ELSE /\ reviewFetches' = Append(reviewFetches, p.Number)
            /\ survivors' = Append(survivors, p.Number)
            /\ IF answer.err
               THEN /\ prFetch' = "error"
                    /\ fetchFailed' = fetchFailed \cup {p.Number}
                    /\ tagLog' =
                          Append(tagLog,
                                 TagFetch("FetchPullRequestReviews", p.Number,
                                          <<>>, 0, 0, TRUE))
                    /\ UNCHANGED <<results, candidatesHeld>>
               ELSE /\ prFetch' = "ok"
                    /\ results' =
                          results \o processPR(
                              p, denylist, answer, now,
                              IF configured(tagsArg)
                              THEN checkPRTagCommits(p, now, listing, errs)
                              ELSE NilSlice).metric
                    /\ tagLog' =
                          Append(tagLog,
                                 TagFetch("FetchPullRequestReviews", p.Number,
                                          <<>>, 0, 0, FALSE))
                          \o (IF configured(tagsArg)
                              THEN tagCalls(p, now, listing, errs)
                              ELSE <<>>)
                    /\ candidatesHeld' =
                          candidatesHeld + Len(listing.commits)
                    /\ UNCHANGED fetchFailed
    /\ UNCHANGED <<denylist, prReviews, reviewsHeld, tagsArg, cacheVars,
                   keyVars, clientVars, matchVars, deployVars, statVars,
                   circleVars, cliVars, serviceVars>>

TagReviewAnswers ==
    {[err |-> TRUE, reviews |-> <<>>], [err |-> FALSE, reviews |-> <<>>]}

\* One iteration of the loop over a list of up to MaxPRs pull requests.
ProcessTaggedStep ==
    /\ prCount < MaxPRs
    /\ \E p \in TagPullRequests(prCount + 1) :
          IF skipsPR(p, denylist)
          THEN ProcessTagged(p, NoAnswer, NoTagListing, <<>>)
          ELSE \E answer \in TagReviewAnswers :
                  IF answer.err \/ ~configured(tagsArg)
                  THEN ProcessTagged(p, answer, NoTagListing, <<>>)
                  ELSE \E listing \in
                             TagListings(MaxCandidates - candidatesHeld) :
                          \E errs \in [1..Len(listing.commits) -> BOOLEAN] :
                             ProcessTagged(p, answer, listing, errs)

NextTags == ProcessTaggedStep
SpecTags == InitTags /\ [][NextTags]_vars

(***************************************************************************)
(* One run of a tracker: of ProcessPullRequests over a list of pull        *)
(* requests, or of ProcessDeployments over a list of releases.             *)
(***************************************************************************)
InitRuns == InitTags

RunPullRequests == relCount = 0 /\ ProcessTaggedStep
RunDeployments == prCount = 0 /\ ProcessRelease

NextRuns == RunPullRequests \/ RunDeployments
SpecRuns == InitRuns /\ [][NextRuns]_vars

(***************************************************************************)
(* Claims about the FileCache (checked under SpecCache)                    *)
(***************************************************************************)
\* The Set recorded for a key has not expired: it had no positive ttl, or the
\* clock has not passed the instant of the Set plus its ttl.
Unexpired(s) == ~(s.ttl > 0 /\ now > s.at + s.ttl)

FileOf(k) == keyToFilename(k)
Stored(k) == FileOf(k) \in DOMAIN files

StoredExpired(fs, clock, k) ==
    /\ FileOf(k) \in DOMAIN fs
    /\ "expires_at" \in DOMAIN fs[FileOf(k)]
    /\ fs[FileOf(k)].expires_at < clock

NegativeSetThenGet ==
    /\ prevOp.op = "Set" /\ prevOp.err = ErrNil /\ prevOp.ttl < 0
    /\ lastOp.op = "Get" /\ lastOp.key = prevOp.key

\* C3 as stated: Set(k, v, ttl) with a negative ttl followed by Get(k) returns
\* Miss, and the store no longer holds k.
C3_Original ==
    NegativeSetThenGet =>
        (lastOp.err = ErrCacheMiss /\ ~Stored(lastOp.key))

\* C3 as amended: Set(k, v, ttl) with a negative ttl stores the entry with no
\* expiry, so the Get(k) that follows returns v without error and the store
\* still holds k; a Get of a key that was Set and not deleted returns Miss
\* only when that Set had a positive ttl and the clock has passed its expiry.
C3_NegativeTTLKept ==
    /\ NegativeSetThenGet =>
           /\ lastOp.err = ErrNil
           /\ lastOp.value = prevOp.value
           /\ Stored(lastOp.key)
    /\ (lastOp.op = "Get" /\ lastOp.err = ErrCacheMiss) =>
           \A s \in lastSet[lastOp.key] : s.ttl > 0 /\ now > s.at + s.ttl

C3_Witness ==
    /\ NegativeSetThenGet
    /\ lastOp.err = ErrNil /\ lastOp.value = Str("v1")
    /\ Stored(lastOp.key)

\* C4: Set(k, v, ttl) with ttl <= 0 stores the entry with no expiresAt: until
\* k is overwritten by another Set or removed by Delete the entry stays in
\* the store at every clock value, and every Get(k) returns v.
C4_NoExpiry ==
    \A k \in CacheKeys : \A s \in lastSet[k] :
        s.ttl <= 0 =>
            /\ Stored(k)
            /\ "expires_at" \notin DOMAIN files[FileOf(k)]
            /\ (lastOp.op = "Get" /\ lastOp.key = k) =>
                   (lastOp.err = ErrNil /\ lastOp.value = s.value)

C4_Witness ==
    /\ \E s \in lastSet["k1"] : s.ttl = 0 /\ s.at = 0 /\ s.value = Str("v2")
    /\ now = 2
    /\ lastOp.op = "Get" /\ lastOp.key = "k1"
    /\ lastOp.err = ErrNil /\ lastOp.value = Str("v2")

(***************************************************************************)
(* Claims about the CacheKeyBuilder (checked under SpecKeys)               *)
(***************************************************************************)
\* The calendar day a time.Time falls on, on the clock of its Location.
DayOf(tm) == (tm.t + tm.off) \div 24

\* Two argument lists name the same resource: the same prefix and fields, and
\* for the functions that take dates, start and end instants on the same
\* calendar days.
SameResource(fn, a, b) ==
    /\ a.prefix = b.prefix /\ a.f1 = b.f1 /\ a.f2 = b.f2 /\ a.f3 = b.f3
    /\ a.n = b.n
    /\ DayOf(a.startDate) = DayOf(b.startDate)
    /\ DayOf(a.endDate) = DayOf(b.endDate)

\* C6: cache keys are deterministic and day-granular.  Two calls of a key
\* function with the same prefix and identifying fields return the same key,
\* and PRsListKey and ReleasesListKey depend on their start and end times
\* only through the calendar day: calls whose instants fall on the same days
\* return the identical key.
C6_KeysDayGranular ==
    (kbCall.fn # "none" /\ kbCall.done) =>
        (SameResource(kbCall.fn, kbCall.a, kbCall.b)
            => kbCall.keyA = kbCall.keyB)

C6_Witness ==
    /\ kbCall.fn = "PRsListKey" /\ kbCall.done
    /\ SameResource(kbCall.fn, kbCall.a, kbCall.b)
    /\ kbCall.a.startDate # kbCall.b.startDate
    /\ kbCall.a.endDate.t # kbCall.b.endDate.t
    /\ kbCall.keyA = "github:prs_list:a:r:0001-01-31:0001-02-01"
    /\ kbCall.keyB = kbCall.keyA

(***************************************************************************)
(* Claims about the cached clients                                         *)
(***************************************************************************)
\* What the wrapped client gave back to the fetch made last.
APIError == IF call.apiErr THEN ErrAPI ELSE ErrNil

SomeSetFailed == \E i \in 1..Len(call.setErrs) : call.setErrs[i] # ErrNil

\* C5: a cached fetch whose cache Get returns an error other than a miss
\* still calls the wrapped client and returns its result, and one whose
\* cache Set fails after a successful fetch still returns the fetched value
\* and no error.
C5_CacheFailuresNotFatal ==
    call.fn # "none" =>
        /\ call.getErr \notin {ErrNil, ErrCacheMiss} =>
               /\ call.apiCalled
               /\ call.value = call.apiValue
               /\ call.err = APIError
        /\ (call.apiCalled /\ ~call.apiErr /\ SomeSetFailed) =>
               /\ call.value = call.apiValue
               /\ call.err = ErrNil

\* FetchFlakyTests found a file it could not decode, fetched two tests, failed
\* to store them and returned them.
C5_Witness ==
    /\ call.fn = "FetchFlakyTests"
    /\ call.getErr = ErrUnmarshalEntry
    /\ call.apiCalled
    /\ call.setErrs = <<ErrMkdir>>
    /\ call.err = ErrNil
    /\ Len(call.value.v) = 2

(***************************************************************************)
(* Claims about ProcessPullRequests                                        *)
(***************************************************************************)
\* The PRNumber of each metric in results, in order.
MetricNumbers == [i \in 1..Len(results) |-> results[i].PRNumber]

InSeq(seq, x) == \E i \in 1..Len(seq) : seq[i] = x

\* The pull request is a draft, or closed with no merge time, or its author
\* is on the deny-list.
Excluded(p) ==
    \/ p.Draft
    \/ (p.State = "closed" /\ p.MergedAt = 0)
    \/ InSeq(denylist, p.User)

\* C7: no metric is emitted and no review fetch is issued for a pull
\* request that is a draft, or closed with no merge time, or whose author is
\* on the deny-list.
C7_ExcludedNotEmitted ==
    \A p \in pr :
        Excluded(p) =>
            /\ prFetch = "none"
            /\ ~InSeq(reviewFetches, p.Number)
            /\ ~InSeq(MetricNumbers, p.Number)

\* A closed, never merged pull request was taken after one that was emitted.
C7_Witness ==
    /\ Len(results) = 1
    /\ \E p \in pr :
           /\ p.Number = 2
           /\ ~p.Draft
           /\ p.State = "closed"
           /\ p.MergedAt = 0
           /\ ~InSeq(denylist, p.User)

\* C8 as stated: every pull request that passes the filter yields exactly
\* one metric, in input order.
C8_Original == MetricNumbers = survivors

FetchSucceeded(n) == n \notin fetchFailed

\* C8: every pull request that passes the filter and whose review fetch
\* succeeds yields exactly one metric, in input order, whether or not it has
\* a review; one whose review fetch fails yields none.
C8_EmittedUnlessFetchFails ==
    /\ MetricNumbers = SelectSeq(survivors, FetchSucceeded)
    /\ \A n \in fetchFailed : InSeq(survivors, n) /\ ~InSeq(MetricNumbers, n)

\* Two pull requests passed the filter; the review fetch failed for the
\* first, and the second was emitted without a review.
C8_Witness ==
    /\ survivors = <<1, 2>>
    /\ fetchFailed = {1}
    /\ Len(results) = 1
    /\ results[1].PRNumber = 2
    /\ ~results[1].HasReview

\* The review is not PENDING, not by the pull request's author and not by a
\* user on the deny-list.
Surviving(review, p) ==
    /\ review.State # "PENDING"
    /\ review.User # p.User
    /\ ~InSeq(denylist, review.User)

SurvivingIndexes(p) == {i \in 1..Len(prReviews) : Surviving(prReviews[i], p)}

\* The metric emitted for the pull request taken last, if one was.
Emitted == IF prFetch = "ok" THEN {results[Len(results)]} ELSE {}

Earliest(idx) ==
    CHOOSE i \in idx :
        \A j \in idx :
            \/ prReviews[i].SubmittedAt < prReviews[j].SubmittedAt
            \/ (prReviews[i].SubmittedAt = prReviews[j].SubmittedAt /\ i <= j)

ApprovingIndexes(p) == {i \in SurvivingIndexes(p) : prReviews[i].State = "APPROVED"}

\* C10: the first review is the surviving review with the least submission
\* time and the first approval the surviving APPROVED review with the least
\* submission time, wherever they stand in the list; each duration is that
\* time minus the creation time; of equal times the one listed first wins.
C10_FirstIsMinimum ==
    \A p \in pr : \A m \in Emitted :
        /\ SurvivingIndexes(p) # {} =>
               LET first == prReviews[Earliest(SurvivingIndexes(p))] IN
               /\ m.FirstReviewer = first.User
               /\ m.FirstReviewState = first.State
               /\ m.TimeToFirstReview = first.SubmittedAt - p.CreatedAt
        /\ ApprovingIndexes(p) # {} =>
               LET approval == prReviews[Earliest(ApprovingIndexes(p))] IN
               /\ m.Approver = approval.User
               /\ m.TimeToApproval = approval.SubmittedAt - p.CreatedAt

\* The approval is listed before an earlier review by someone else that
\* requests changes.
C10_Witness ==
    \E p \in pr : \E m \in Emitted :
        /\ SurvivingIndexes(p) = {1, 2}
        /\ prReviews[1].State = "APPROVED"
        /\ prReviews[2].State = "CHANGES_REQUESTED"
        /\ prReviews[2].SubmittedAt < prReviews[1].SubmittedAt
        /\ prReviews[1].User # prReviews[2].User
        /\ m.FirstReviewer = prReviews[2].User
        /\ m.Approver = prReviews[1].User

(***************************************************************************)
(* Claims about the commit-reference matcher (checked under SpecMatch)     *)
(***************************************************************************)
\* The lines of a patch: the stretches of text between its line feeds.
LineStarts(p) == {a \in 1..(Len(p) + 1) : a = 1 \/ p[a - 1] = NewLine}

LineEnd(p, a) ==
    CHOOSE b \in (a - 1)..Len(p) :
        /\ b = Len(p) \/ p[b + 1] = NewLine
        /\ \A k \in a..b : p[k] # NewLine

LinesOf(p) == {SubSeq(p, a, LineEnd(p, a)) : a \in LineStarts(p)}

PatchesOf(c) == UNION {c.files[f].Patch : f \in 1..Len(c.files)}

\* The added lines of a commit's diff: the lines that begin with "+".
AddedLinesOf(c) ==
    {l \in UNION {LinesOf(p) : p \in PatchesOf(c)} : Len(l) > 0 /\ l[1] = "+"}

\* At position m of the line stands text, followed by at least seven
\* hexadecimal digits.
RefAt(line, m, text) ==
    /\ m + Len(text) + MinSHA - 1 <= Len(line)
    /\ SubSeq(line, m, m + Len(text) - 1) = text
    /\ \A k \in 0..(MinSHA - 1) : line[m + Len(text) + k] \in HexDigits

\* A direct reference pull-<number>_<sha> stands at position m.
DirectRefAt(line, m, number) ==
    RefAt(line, m, PullDash \o Itoa(number) \o <<"_">>)

\* A branch-timestamp reference to the branch stands at position m.
BranchRefAt(line, m, branch) ==
    /\ isStamp(line, m)
    /\ RefAt(line, m + Len(StampShape), branch \o Underscores)

\* The text before position m ends with a key: "+", white space, at least
\* one word character, ":", white space.
KeyedAt(line, m) ==
    \E i \in {x \in 1..Len(line) : line[x] = "+"},
       k \in {x \in 1..Len(line) : line[x] = ":"} :
        /\ i < k /\ k < m
        /\ \A x \in (k + 1)..(m - 1) : line[x] \in SpaceChars
        /\ \E j \in (i + 1)..(k - 1) :
              /\ \A x \in (i + 1)..(j - 1) : line[x] \in SpaceChars
              /\ \A x \in j..(k - 1) : line[x] \in WordChars

CommitOwn(c) ==
    [SHA |-> c.sha, Message |-> c.message, Author |-> c.author,
     Date |-> c.date]

\* C11 as stated: the PR-search returns a TagCommit with the commit's own
\* SHA, message, author and date if and only if some added line holds a
\* direct reference pull-<N>_<sha> with N = prNumber or a branch-timestamp
\* reference to a non-empty prBranch, and nil otherwise.
C11_Original ==
    found.fn = "analyze" =>
        found.tagCommit =
            IF \E l \in AddedLinesOf(commit) : \E m \in 1..Len(l) :
                   \/ DirectRefAt(l, m, searchPR)
                   \/ searchBranch # <<>> /\ BranchRefAt(l, m, searchBranch)
            THEN {CommitOwn(commit)}
            ELSE {}

\* C11, amended: the reference counts only where it is the value of a key,
\* "+ <word>: <reference>"; an added line that holds the reference without
\* a key before it, a reference to another number or branch, and a branch
\* reference when prBranch is empty yield nil.
C11_KeyedReference ==
    found.fn = "analyze" =>
        found.tagCommit =
            IF \E l \in AddedLinesOf(commit) : \E m \in 1..Len(l) :
                   /\ KeyedAt(l, m)
                   /\ \/ DirectRefAt(l, m, searchPR)
                      \/ /\ searchBranch # <<>>
                         /\ BranchRefAt(l, m, searchBranch)
            THEN {CommitOwn(commit)}
            ELSE {}

\* A commit found by its branch alone, in the second of two files.
C11_Witness ==
    /\ found.fn = "analyze"
    /\ found.tagCommit = {CommitOwn(commit)}
    /\ searchPR = 12
    /\ searchBranch = BranchFB
    /\ Len(commit.files) = 2
    /\ commit.files[1].Patch = {DirectLine(Added, Key, One, ShaA)}
    /\ commit.files[2].Patch = {BranchLine(Added, Key, BranchFB, ShaC)}

\* Release-search: what a line gives when it is added and matches one of
\* the two patterns (the second only with "__main__" in the line).
LineMatches(l) ==
    /\ Len(l) > 0 /\ l[1] = "+"
    /\ \/ shaPattern1(l).sha # <<>>
       \/ shaPattern2(l) # <<>> /\ stringsContains(l, MainToken)

LineValue(l) ==
    IF shaPattern1(l).sha # <<>> THEN shaPattern1(l)
    ELSE [sha |-> shaPattern2(l), prNumber |-> <<>>]

\* The line of the f-th file's patch that starts at position a.
PatchOf(c, f) == CHOOSE p \in c.files[f].Patch : TRUE
LineAt(c, f, a) == SubSeq(PatchOf(c, f), a, LineEnd(PatchOf(c, f), a))

\* The places <<file, line start>> of the matching added lines of a diff,
\* and the first of them in file order, then line order.
MatchPlaces(c) ==
    UNION {{<<f, a>> : a \in {b \in LineStarts(PatchOf(c, f)) :
                                 LineMatches(LineAt(c, f, b))}} :
           f \in {g \in 1..Len(c.files) : c.files[g].Patch # {}}}

FirstPlace(places) ==
    CHOOSE fa \in places :
        \A gb \in places :
            fa[1] < gb[1] \/ (fa[1] = gb[1] /\ fa[2] <= gb[2])

\* The PR-search counterpart of LineMatches.
LineRefers(l, number, branch) ==
    /\ Len(l) > 0 /\ l[1] = "+"
    /\ \/ prPatternFinds(l, number)
       \/ branch # <<>> /\ branchPatternFinds(l, branch)

\* C12: first match among added lines wins.  When the diff of the commit is
\* searched, the release-search takes the application SHA and the PR number
\* from the first line, in file order and then line order, that begins with
\* "+" and matches a pattern, whatever lines that do not begin with "+" and
\* whatever matching lines stand after it; without such a line it fails.
\* The PR-search returns the TagCommit exactly when such a line exists.
C12_FirstMatchWins ==
    /\ (found.fn = "extract" /\ ~found.tagsErr /\ Len(commit.files) > 0) =>
          IF MatchPlaces(commit) = {}
          THEN found.out = ExtractFailed(ErrNoSHAInDiff)
          ELSE IF found.serviceErr
          THEN found.out = ExtractFailed(ErrServiceCommit)
          ELSE /\ found.out.err = ErrNil
               /\ found.out.sha =
                      LineValue(LineAt(commit,
                                       FirstPlace(MatchPlaces(commit))[1],
                                       FirstPlace(MatchPlaces(commit))[2])).sha
               /\ found.out.prNumber =
                      LineValue(LineAt(commit,
                                       FirstPlace(MatchPlaces(commit))[1],
                                       FirstPlace(MatchPlaces(commit))[2])).prNumber
    /\ found.fn = "analyze" =>
          (found.tagCommit # {} <=>
              \E l \in AddedLinesOf(commit) :
                  LineRefers(l, searchPR, searchBranch))

\* The first file holds the line of pull request 12 and the second the line
\* of pull request 1: the release is linked to pull request 12.
C12_Witness ==
    /\ found.fn = "extract"
    /\ found.out.err = ErrNil
    /\ found.out.prNumber = Twelve
    /\ found.out.sha = ShaB
    /\ Len(commit.files) = 2
    /\ commit.files[1].Patch = {DirectLine(Added, Key, Twelve, ShaB)}
    /\ commit.files[2].Patch = {DirectLine(Added, Key, One, ShaA)}

\* The diff is empty or missing: there is no file, or no file has any patch
\* content.
EmptyDiff(c) == PatchesOf(c) \subseteq {<<>>}

\* C13 as stated: a commit with an empty or missing diff is treated as
\* no-match and not as an error: the PR-search returns nil and the
\* release-search ends as it does for a diff in which no line matches.
C13_Original ==
    /\ (found.fn = "analyze" /\ EmptyDiff(commit)) => found.tagCommit = {}
    /\ (found.fn = "extract" /\ ~found.tagsErr /\ EmptyDiff(commit)) =>
          found.out = ExtractFailed(ErrNoSHAInDiff)

\* C13, amended: the PR-search returns nil; the release-search ends as for
\* an unmatched diff when the commit has files without patch content, and
\* with the error "no files in commit diff" when it has no files at all.
C13_EmptyDiff ==
    /\ (found.fn = "analyze" /\ EmptyDiff(commit)) => found.tagCommit = {}
    /\ (found.fn = "extract" /\ ~found.tagsErr /\ EmptyDiff(commit)) =>
          found.out =
              ExtractFailed(IF Len(commit.files) = 0 THEN ErrNoFiles
                                                     ELSE ErrNoSHAInDiff)

\* The release-search of a commit whose two files have no patch and an
\* empty patch.
C13_Witness ==
    /\ found.fn = "extract"
    /\ ~found.tagsErr
    /\ commit.files = <<NoPatch, [Patch |-> {<<>>}]>>
    /\ found.out.err = ErrNoSHAInDiff

(***************************************************************************)
(* Claims about ProcessDeployments (checked under SpecDeploy)              *)
(***************************************************************************)
\* Commit resolution and finish-time resolution both succeeded for the k-th
\* release taken.
Resolves(k) ==
    /\ taken[k].extractErr = ErrNil
    /\ taken[k].finishCalled
    /\ taken[k].finishErr = ErrNil

\* The names of the releases among the first n taken for which both
\* succeeded, in input order.
RECURSIVE ResolvedNames(_)
ResolvedNames(n) ==
    IF n = 0 THEN <<>>
    ELSE IF Resolves(n) THEN Append(ResolvedNames(n - 1), taken[n].name)
    ELSE ResolvedNames(n - 1)

\* C14: per-release failure isolation.  The results hold exactly one metric
\* for each release taken for which commit resolution and finish-time
\* resolution both succeeded and none for any other, in input order, and no
\* release, failed or not, makes the loop leave before the releases after
\* it.
C14_FailureIsolation ==
    /\ Len(taken) = relCount
    /\ \A k \in 1..Len(taken) :
          taken[k].name = ReleaseName(k) /\ taken[k].goesOn
    /\ [k \in 1..Len(deployments) |-> deployments[k].ReleaseName]
           = ResolvedNames(relCount)

\* The first release has no succeeded rollout, the second is resolved: the
\* results hold the second release alone.
C14_Witness ==
    /\ relCount = 2
    /\ taken[1].extractErr = ErrNil
    /\ taken[1].finishErr = ErrNoRollout
    /\ Resolves(2)
    /\ Len(deployments) = 1
    /\ deployments[1].ReleaseName = ReleaseName(2)

\* The release taken last, and whether GetReleaseFinishTime was called for
\* it.
Taking == CHOOSE t \in taking : TRUE
FinishAsked == taking # {} /\ Taking.finishCalled

\* The rollouts of a listing that succeeded, and those of them that carry a
\* DeployEndTime.
SucceededOf(l) ==
    {k \in 1..Len(l.rollouts) : l.rollouts[k].State = Succeeded}
CompletedOf(l) ==
    {k \in SucceededOf(l) : l.rollouts[k].DeployEndTime # {}}

\* The latest DeployEndTime among the rollouts idx of a listing.
LatestEnd(l, idx) ==
    CHOOSE t \in UNION {l.rollouts[k].DeployEndTime : k \in idx} :
        \A k \in idx : \A u \in l.rollouts[k].DeployEndTime : u <= t

\* The release taken last has no metric in the results, and the loop goes
\* on after it.
Dropped ==
    /\ \A k \in 1..Len(deployments) :
          deployments[k].ReleaseName # Taking.case.release.Name
    /\ taken[relCount].goesOn

\* C15 as stated: GetReleaseFinishTime returns an error if and only if no
\* rollout of the release has succeeded or the listing fails, and else the
\* maximum DeployEndTime over the succeeded rollouts; a release that gets
\* the error yields no metric and the batch goes on.
C15_Original ==
    FinishAsked =>
        /\ Taking.finish.err # ErrNil
              <=> (Taking.case.listing.err
                      \/ SucceededOf(Taking.case.listing) = {})
        /\ Taking.finish.err # ErrNil => Dropped

\* C15, amended: the rollouts that count are those that succeeded and carry
\* a DeployEndTime.  Without a listing failure the result is the maximum
\* DeployEndTime over them, and the error "no completed rollouts" exactly
\* when there is none, as for a release whose only succeeded rollout has no
\* DeployEndTime; a release that gets an error yields no metric and the
\* batch goes on.
C15_LatestCompletedRollout ==
    FinishAsked =>
        /\ Taking.finish =
              IF Taking.case.listing.err THEN FinishTime(0, ErrListRollouts)
              ELSE IF CompletedOf(Taking.case.listing) = {}
              THEN FinishTime(0, ErrNoRollout)
              ELSE FinishTime(LatestEnd(Taking.case.listing,
                                        CompletedOf(Taking.case.listing)),
                              ErrNil)
        /\ Taking.finish.err # ErrNil => Dropped

\* A failed rollout that ended at 3 and a succeeded one that ended at 1: the
\* release finished at 1.
C15_Witness ==
    /\ FinishAsked
    /\ Taking.case.listing.rollouts
           = <<Rollout(Failed_, {3}), Rollout(Succeeded, {1})>>
    /\ Taking.finish = FinishTime(1, ErrNil)
    /\ Len(deployments) = 1

\* C16: every DeploymentMetric has latency = releaseFinishTime - commitTime,
\* negative when the commit is later than the finish, and successful = true.
\* The two times of the metric of the release taken last are the date of
\* its services-repository commit and the latest end of its completed
\* rollouts.
C16_LatencyKept ==
    /\ \A k \in 1..Len(deployments) :
          /\ deployments[k].CommitToDeployLatency
                 = deployments[k].ReleaseFinishTime - deployments[k].CommitTime
          /\ deployments[k].DeploymentSuccessful
    /\ (relCount > 0 /\ Resolves(relCount)) =>
          /\ deployments[Len(deployments)].CommitTime
                 = Taking.case.service.date
          /\ deployments[Len(deployments)].ReleaseFinishTime
                 = LatestEnd(Taking.case.listing,
                             CompletedOf(Taking.case.listing))

\* A release whose commit is dated 2 and whose rollout ended at 1.
C16_Witness ==
    /\ relCount > 0
    /\ Resolves(relCount)
    /\ Taking.case.service.date = 2
    /\ deployments[Len(deployments)].ReleaseFinishTime = 1
    /\ deployments[Len(deployments)].CommitToDeployLatency = 0 - 1

(***************************************************************************)
(* Claims about CalculatePRDeploymentStats, under SpecStats.               *)
(***************************************************************************)
StatCalled == statOut.fn = "CalculatePRDeploymentStats"
Groups == statOut.value
NumbersIn == {statArg[i].PRNumber : i \in 1..Len(statArg)} \ {<<>>}
IndexesOf(number) == {i \in 1..Len(statArg) : statArg[i].PRNumber = number}

\* The first k input metrics that carry the number, in input order.
RECURSIVE MetricsOf(_, _)
MetricsOf(number, k) ==
    IF k = 0 THEN <<>>
    ELSE IF statArg[k].PRNumber = number
         THEN Append(MetricsOf(number, k - 1), statArg[k])
         ELSE MetricsOf(number, k - 1)

RECURSIVE CountSum(_)
CountSum(k) ==
    IF k = 0 THEN 0 ELSE CountSum(k - 1) + Groups[k].DeploymentCount

\* C17: CalculatePRDeploymentStats returns exactly one group for each
\* distinct non-empty PR number of the input and no other group; a group's
\* DeploymentCount is the number of input metrics with its number and its
\* Deployments are exactly those metrics; so the counts add up to the number
\* of input metrics with a non-empty number.
C17_OneGroupPerNumber ==
    StatCalled =>
        /\ \A number \in NumbersIn :
              Cardinality({k \in DOMAIN Groups :
                              Groups[k].PRNumber = number}) = 1
        /\ \A k \in DOMAIN Groups :
              /\ Groups[k].PRNumber \in NumbersIn
              /\ Groups[k].DeploymentCount =
                     Cardinality(IndexesOf(Groups[k].PRNumber))
              /\ Groups[k].Deployments =
                     MetricsOf(Groups[k].PRNumber, Len(statArg))
        /\ CountSum(Len(Groups)) =
               Cardinality({i \in 1..Len(statArg) :
                               statArg[i].PRNumber # <<>>})

\* Two metrics share a number, a third has none.
C17_Witness ==
    /\ StatCalled
    /\ \E i \in 1..Len(statArg) : statArg[i].PRNumber = <<>>
    /\ \E k \in DOMAIN Groups : Groups[k].DeploymentCount = 2

GroupMetrics(k) == {statArg[i] : i \in IndexesOf(Groups[k].PRNumber)}

\* C18: in every group returned by CalculatePRDeploymentStats,
\* FirstCommitTime is the least CommitTime and LastFinishTime the greatest
\* ReleaseFinishTime of the group's metrics, FirstToLastDelta is their
\* difference, and CommitSHAs holds each distinct CommitSHA of the group
\* exactly once, so that its length is between 1 and DeploymentCount.
C18_GroupExtremes ==
    StatCalled =>
        \A k \in DOMAIN Groups :
            /\ \E d \in GroupMetrics(k) :
                  d.CommitTime = Groups[k].FirstCommitTime
            /\ \A d \in GroupMetrics(k) :
                  Groups[k].FirstCommitTime <= d.CommitTime
            /\ \E d \in GroupMetrics(k) :
                  d.ReleaseFinishTime = Groups[k].LastFinishTime
            /\ \A d \in GroupMetrics(k) :
                  d.ReleaseFinishTime <= Groups[k].LastFinishTime
            /\ Groups[k].FirstToLastDelta =
                   Groups[k].LastFinishTime - Groups[k].FirstCommitTime
            /\ \A d \in GroupMetrics(k) :
                  Cardinality({j \in DOMAIN Groups[k].CommitSHAs :
                                  Groups[k].CommitSHAs[j] = d.CommitSHA}) = 1
            /\ \A j \in DOMAIN Groups[k].CommitSHAs :
                  \E d \in GroupMetrics(k) :
                      d.CommitSHA = Groups[k].CommitSHAs[j]
            /\ 1 <= Len(Groups[k].CommitSHAs)
            /\ Len(Groups[k].CommitSHAs) <= Groups[k].DeploymentCount

\* Two deployments of one commit, the later commit time listed first.
C18_Witness ==
    /\ StatCalled
    /\ \E k \in DOMAIN Groups :
          /\ Groups[k].DeploymentCount = 2
          /\ Len(Groups[k].CommitSHAs) = 1
          /\ Groups[k].Deployments[1].CommitTime >
                 Groups[k].Deployments[2].CommitTime
          /\ Groups[k].FirstToLastDelta = 2

(***************************************************************************)
(* Claims about calculateMedian, under SpecMedian.                         *)
(***************************************************************************)
MedianCalled == statOut.fn = "calculateMedian"
Given == statOut.given
Below(x) == Cardinality({i \in DOMAIN Given : Given[i] < x})
NotAbove(x) == Cardinality({i \in DOMAIN Given : Given[i] <= x})

\* x is the k-th element of the ascending sort of the given durations.
IsKth(x, k) ==
    /\ \E i \in DOMAIN Given : Given[i] = x
    /\ Below(x) < k
    /\ NotAbove(x) >= k

\* m is the sum halved, rounded toward zero.
IsMean(m, sum) ==
    IF sum >= 0 THEN sum - 2 * m \in {0, 1} ELSE 2 * m - sum \in {0, 1}

\* C19: calculateMedian returns, for N durations given in any order, the
\* middle element of their ascending sort when N is odd, the sum of the two
\* central elements divided by 2 as integers when N is even, and the zero
\* duration when N = 0.
C19_Median ==
    MedianCalled =>
        /\ Len(Given) = 0 => statOut.value = 0
        /\ Len(Given) % 2 = 1 =>
              IsKth(statOut.value, (Len(Given) \div 2) + 1)
        /\ (Len(Given) # 0 /\ Len(Given) % 2 = 0) =>
              \E a, b \in DurationValues :
                  /\ IsKth(a, Len(Given) \div 2)
                  /\ IsKth(b, (Len(Given) \div 2) + 1)
                  /\ IsMean(statOut.value, a + b)

\* An even number of durations out of order whose central sum is odd and
\* negative.
C19_Witness ==
    /\ MedianCalled
    /\ Len(Given) = 2
    /\ Given[1] > Given[2]
    /\ statOut.value = -1
    /\ Given[1] + Given[2] = -3

(***************************************************************************)
(* Claims about ProcessFlakyTests, under SpecFlaky.                        *)
(***************************************************************************)
FlakyCalled == statOut.fn = "ProcessFlakyTests"
FlakyMetrics == statOut.value

\* The metric is the one the claim asks for the test.
MetricOfTest(metric, test) ==
    /\ metric.TestName = test.TestName
    /\ metric.ClassName = test.ClassName
    /\ metric.TimesFlaky = test.TimesFlaky
    /\ metric.LastOccurred = {} <=> test.PipelineRun = {}
    /\ \A run \in test.PipelineRun : metric.LastOccurred = {run.CreatedAt}

\* The ways to pair n metrics with n tests, one to one.
Pairings(n) ==
    {p \in [1..n -> 1..n] : \A i \in 1..n : \E k \in 1..n : p[k] = i}

\* C20: ProcessFlakyTests returns one metric for each input test, with the
\* test's TestName, ClassName and TimesFlaky and with LastOccurred nil
\* exactly when the test has no PipelineRun and otherwise equal to the run's
\* CreatedAt, and the metrics are in order of non-increasing TimesFlaky.
C20_FlakyMetrics ==
    FlakyCalled =>
        /\ Len(FlakyMetrics) = Len(statArg)
        /\ \E p \in Pairings(Len(statArg)) :
              \A k \in 1..Len(statArg) :
                  MetricOfTest(FlakyMetrics[k], statArg[p[k]])
        /\ \A k \in 1..(Len(FlakyMetrics) - 1) :
              FlakyMetrics[k].TimesFlaky >= FlakyMetrics[k + 1].TimesFlaky

\* The test that flaked most is given last and has a run; another has none.
C20_Witness ==
    /\ FlakyCalled
    /\ Len(statArg) = 3
    /\ statArg[1].TimesFlaky = 1
    /\ statArg[2].TimesFlaky = 1
    /\ statArg[3].TimesFlaky = 2
    /\ statArg[1].PipelineRun = {}
    /\ statArg[3].PipelineRun # {}
    /\ FlakyMetrics[1].LastOccurred = {1}
    /\ FlakyMetrics[1].TestName = statArg[3].TestName

LinkNumbers == {One, Twelve}
LinkSHAs == {ShaA, ShaB, ShaC, ShaD}

\* The line holds, as the value of a key, text followed by the SHA and by
\* no further hexadecimal digit.
KeyedValue(l, m, text, sha) ==
    /\ KeyedAt(l, m)
    /\ m + Len(text) + Len(sha) - 1 <= Len(l)
    /\ SubSeq(l, m, m + Len(text) + Len(sha) - 1) = text \o sha
    /\ \/ m + Len(text) + Len(sha) > Len(l)
       \/ l[m + Len(text) + Len(sha)] \notin HexDigits

\* The added line is a direct reference pull-<number>_<sha>.
DirectWith(l, number, sha) ==
    \E m \in 1..Len(l) : KeyedValue(l, m, PullDash \o number \o <<"_">>, sha)

\* The added line is a branch-timestamp reference whose branch token is the
\* main branch.
MainWith(l, sha) ==
    \E m \in 1..Len(l) :
        /\ isStamp(l, m)
        /\ KeyedAt(l, m)
        /\ KeyedValue(l, m, SubSeq(l, m, m + Len(StampShape) - 1)
                               \o BranchMain \o Underscores, sha)

Links(l) ==
    /\ Len(l) > 0 /\ l[1] = "+"
    /\ \/ \E number \in LinkNumbers, sha \in LinkSHAs : DirectWith(l, number, sha)
       \/ \E sha \in LinkSHAs : MainWith(l, sha)

\* The places of the lines that link, in the way of MatchPlaces.
LinkPlaces(c) ==
    UNION {{<<f, a>> : a \in {b \in LineStarts(PatchOf(c, f)) :
                                 Links(LineAt(c, f, b))}} :
           f \in {g \in 1..Len(c.files) : c.files[g].Patch # {}}}

WinningLine(c) ==
    LineAt(c, FirstPlace(LinkPlaces(c))[1], FirstPlace(LinkPlaces(c))[2])

\* C29: a release-search that returns without error has taken its result
\* from the first added line that is a direct reference or a
\* branch-timestamp reference whose branch token is main, every line of
\* another branch passed over; prNumber is non-empty exactly when that line
\* is a direct reference, and then prNumber and the SHA are the line's; for
\* a line of the main branch prNumber is empty and the SHA is the line's.
C29_Linkage ==
    (found.fn = "extract" /\ found.out.err = ErrNil) =>
        /\ LinkPlaces(commit) # {}
        /\ IF found.out.prNumber # <<>>
           THEN DirectWith(WinningLine(commit), found.out.prNumber,
                           found.out.sha)
           ELSE MainWith(WinningLine(commit), found.out.sha)

(***************************************************************************)
(* Claims about the read-through protocol (checked under SpecCached)       *)
(***************************************************************************)
\* The step is a cached fetch.
FetchMade == calls' = calls + 1

\* The fetch wrote a file: one that was not there, or other content.
Written ==
    \E f \in DOMAIN files' : f \notin DOMAIN files \/ files'[f] # files[f]

\* The fetch removed a file.
Removed == \E f \in DOMAIN files : f \notin DOMAIN files'

\* The file holds an entry that has expired.
ExpiredFile(f) ==
    /\ ~unmarshalEntry(files[f]).err
    /\ IsExpired(unmarshalEntry(files[f]).entry, now)

\* C27 as stated: the wrapped client is called only after the cache Get
\* returned a miss or an error, a fetch whose Get returns an unexpired entry
\* is answered with it and no call; the cache is written only after the
\* wrapped client succeeded, and a failed fetch returns its error and leaves
\* the cache unchanged.
C27_Original ==
    [][FetchMade =>
          /\ call'.apiCalled => call'.getErr # ErrNil
          /\ call'.getErr = ErrNil =>
                ~call'.apiCalled /\ call'.err = ErrNil /\ files' = files
          /\ (Written \/ call'.setErrs # <<>>) =>
                call'.apiCalled /\ ~call'.apiErr
          /\ call'.apiErr => call'.err = ErrAPI /\ files' = files]_vars

\* C27: as stated, but a failed fetch leaves every file of the cache as it
\* is except the file of an expired entry, which the cache Get that came
\* before the call of the wrapped client may have removed.
C27_ReadThrough ==
    [][FetchMade =>
          /\ call'.apiCalled => call'.getErr # ErrNil
          /\ call'.getErr = ErrNil =>
                ~call'.apiCalled /\ call'.err = ErrNil /\ files' = files
          /\ (Written \/ call'.setErrs # <<>>) =>
                call'.apiCalled /\ ~call'.apiErr
          /\ call'.apiErr =>
                /\ call'.err = ErrAPI
                /\ ~Written
                /\ \A f \in DOMAIN files :
                      f \notin DOMAIN files' => ExpiredFile(f)]_vars

\* A fetch failed at the wrapped client after an earlier one had stored its
\* result.
C27_Witness ==
    /\ calls = 2
    /\ call.apiCalled /\ call.apiErr
    /\ call.getErr = ErrCacheMiss
    /\ call.err = ErrAPI
    /\ files # <<>>

(***************************************************************************)
(* Claims about the TTLs of the cached GitHub client (checked under        *)
(* SpecCached)                                                             *)
(***************************************************************************)
ReviewsFile(n) == keyToFilename(PRReviewsKey("github", "a", "b", n))
PRFile(n) == keyToFilename(PRKey("github", "a", "b", n))
ListFile(endDate) ==
    keyToFilename(PRsListKey("github", "a", "b", StartDate, endDate))

\* The step wrote the file with an entry that can be read back.
EntryWritten(f) ==
    /\ f \in DOMAIN files'
    /\ f \notin DOMAIN files \/ files'[f] # files[f]
    /\ ~unmarshalEntry(files'[f]).err

\* The entry now in the file expires ttl hours from now.
ExpiresIn(f, ttl) == unmarshalEntry(files'[f]).entry.ExpiresAt = {now + ttl}

\* The pull request an entry holds.
PRIn(doc) == jsonUnmarshal(unmarshalEntry(doc).entry.Data, PRPointerType)

\* Before the step the cache holds an unexpired entry of a closed pull
\* request under the PRKey of the number.
HoldsClosedPR(n) ==
    /\ PRFile(n) \in DOMAIN files
    /\ ~unmarshalEntry(files[PRFile(n)]).err
    /\ ~IsExpired(unmarshalEntry(files[PRFile(n)]).entry, now)
    /\ ~PRIn(files[PRFile(n)]).err
    /\ \E p \in PRIn(files[PRFile(n)]).value.v : p.State = "closed"

\* C28: after a miss FetchPullRequestReviews stores the reviews for 24 hours
\* exactly when the cache holds an unexpired entry of that pull request under
\* its PRKey whose state is closed, and for 1 hour otherwise;
\* FetchPullRequests writes the entry of a single pull request, for 24
\* hours, only for a closed one, and stores the list for 24 hours when the
\* end date lies more than 7 days back and for 1 hour otherwise.
C28_StateDependentTTL ==
    [][FetchMade =>
          /\ (call'.fn = "FetchPullRequestReviews"
                 /\ call'.getErr = ErrCacheMiss) =>
                \A n \in PRNumbers :
                    EntryWritten(ReviewsFile(n)) =>
                        ExpiresIn(ReviewsFile(n),
                                  IF HoldsClosedPR(n) THEN 24 ELSE 1)
          /\ call'.fn = "FetchPullRequests" =>
                /\ \A n \in PRNumbers :
                      EntryWritten(PRFile(n)) =>
                          /\ ExpiresIn(PRFile(n), 24)
                          /\ \E p \in PRIn(files'[PRFile(n)]).value.v :
                                p.State = "closed" /\ p.Number = n
                /\ \A d \in EndDates :
                      EntryWritten(ListFile(d)) =>
                          ExpiresIn(ListFile(d),
                                    IF now - d.t > 7 * 24 THEN 24
                                    ELSE 1)]_vars

\* The reviews of pull request 1 were fetched after it had been stored as
\* closed, and are kept for 24 hours.
C28_Witness ==
    /\ calls = 2
    /\ call.fn = "FetchPullRequestReviews"
    /\ call.getErr = ErrCacheMiss
    /\ call.setErrs = <<ErrNil>>
    /\ PRFile(1) \in DOMAIN files
    /\ ReviewsFile(1) \in DOMAIN files
    /\ unmarshalEntry(files[ReviewsFile(1)]).entry.ExpiresAt = {now + LongTTL}

(***************************************************************************)
(* Claims about CircleCIClient.FetchFlakyTests (checked under SpecCircle)  *)
(***************************************************************************)
RefusedPage ==
    /\ flakyReturn.state = "returned"
    /\ pageAnswer.kind = "response"
    /\ pageAnswer.status # 200

\* C24: when a page request is answered with a status other than 200 (404
\* included), FetchFlakyTests returns nil tests, nothing of the pages read
\* before, and an error whose message starts with "API returned status"
\* followed by the code.
C24_ErrorOutcome ==
    RefusedPage =>
        /\ flakyReturn.tests = NilSlice
        /\ ~flakyReturn.err.isNil
        /\ HasPrefix(flakyReturn.err.msg,
                     <<"API returned status ">> \o Itoa(pageAnswer.status))

(***************************************************************************)
(* Claims about main of the two trackers (checked under SpecCli)           *)
(***************************************************************************)
SetupDone == cliRun.state \in {"ready", "fetched", "exited"}

DateMalformed ==
    \/ cliArgs.since # <<>> /\ parseDate(cliArgs.since).err
    \/ cliArgs.until # <<>> /\ parseDate(cliArgs.until).err

StartAfterEnd ==
    /\ ~DateMalformed
    /\ startDateOf(cliArgs, now).tm.t > endDateOf(cliArgs, now).tm.t

ZeroRange ==
    /\ ~DateMalformed
    /\ startDateOf(cliArgs, now).tm.t = endDateOf(cliArgs, now).tm.t

Aborted ==
    /\ cliRun.state = "exited"
    /\ cliRun.exit # 0
    /\ cliRun.fetches = 0
    /\ ~cliRun.printed

\* C25: the pr-tracker and the deploy-tracker end with a non-zero exit,
\* before any fetch is issued and before any result is printed, when the
\* credential is missing, a date is malformed, the start date is after the
\* end date, or the start date equals the end date.
C25_SetupAborts ==
    (SetupDone /\ (cliArgs.credential = "" \/ DateMalformed \/ StartAfterEnd
                     \/ ZeroRange))
        => Aborted

(***************************************************************************)
(* Claims about the finish time through the cache (checked under           *)
(* SpecFinish)                                                             *)
(***************************************************************************)
\* The end times of the rollouts of the release that have succeeded.
SucceededEndTimes ==
    {endTime(releaseRollouts[i]) :
        i \in {k \in 1..Len(releaseRollouts) : completes(releaseRollouts[k])}}

LatestEndTime == CHOOSE t \in SucceededEndTimes : \A u \in SucceededEndTimes : u <= t

\* C26: every call of CachedDeployClient.GetReleaseFinishTime that returns a
\* finish time returns the maximum DeployEndTime among the rollouts of the
\* release that are in state succeeded at the time of the call, also when a
\* further rollout of the release has succeeded since an earlier call.
C26_FinishTimeIsLatest ==
    [][(calls' = calls + 1 /\ call'.err = ErrNil) =>
          /\ SucceededEndTimes # {}
          /\ call'.value = TimeValue(Time(LatestEndTime, 0))]_vars

(***************************************************************************)
(* Claims about the tag commits of a pull request (checked under SpecTags) *)
(***************************************************************************)
\* The calls of fn the run has made for the pull request taken last.
CallsFor(fn) ==
    SelectSeq(tagLog, LAMBDA c : c.fn = fn /\ c.number = prCount)

\* The pull request taken last has its metric appended, with a tags
\* repository given.
TagsSearched == prFetch = "ok" /\ configured(tagsArg)

\* C21 as stated: for each surviving pull request checkPRTagCommits asks for
\* the commits of the tags repository between its creation time and its
\* merge time if it is merged, else its close time if it is closed, else
\* its creation time plus 30 days.
C21_Original ==
    TagsSearched =>
        \A p \in pr :
            /\ Len(CallsFor("FetchCommits")) = 1
            /\ CallsFor("FetchCommits")[1].start = p.CreatedAt
            /\ CallsFor("FetchCommits")[1].end =
                  IF p.MergedAt # 0 THEN p.MergedAt
                  ELSE IF p.State = "closed" THEN p.ClosedAt
                  ELSE p.CreatedAt + 30 * 24

\* C21: for each surviving pull request checkPRTagCommits asks for the
\* commits of the tags repository between its creation time and its merge
\* time if it is merged, else its close time if it is closed, else, for a
\* pull request that is still open, the time of the call.
C21_SearchWindow ==
    TagsSearched =>
        \A p \in pr :
            /\ Len(CallsFor("FetchCommits")) = 1
            /\ CallsFor("FetchCommits")[1].start = p.CreatedAt
            /\ CallsFor("FetchCommits")[1].end =
                  IF p.MergedAt # 0 THEN p.MergedAt
                  ELSE IF p.State = "closed" THEN p.ClosedAt
                  ELSE now

\* The commits were asked for on behalf of an open pull request, up to the
\* time of the call.
C21_Witness ==
    /\ TagsSearched
    /\ \E p \in pr : p.State = "open"
    /\ Len(CallsFor("FetchCommits")) = 1
    /\ CallsFor("FetchCommits")[1].end = now

\* The candidate commit refers to the pull request: by its number, or by
\* its head branch.
RefersTo(sha, p) ==
    \/ sha = <<"t", "1">> /\ p.Number = 1
    \/ sha = <<"t", "2">> /\ p.Number = 2
    \/ sha = <<"t", "3">> /\ p.Head = {[Ref |-> BranchFB]}

\* The SHAs of the candidates fetched without error that refer to p.
ReferringSHAs(p) ==
    [i \in 1..Len(SelectSeq(CallsFor("FetchCommit"),
                            LAMBDA c : ~c.err /\ RefersTo(c.sha, p))) |->
        SelectSeq(CallsFor("FetchCommit"),
                  LAMBDA c : ~c.err /\ RefersTo(c.sha, p))[i].sha]

SHAsOf(tagCommits) ==
    [i \in 1..Len(tagCommits.elems) |-> tagCommits.elems[i].SHA]

\* C22: with a tags repository given, the metric of a pull request is
\* appended whatever the tag fetches return, and its tagCommits holds one
\* TagCommit for every candidate commit whose fetch succeeds and whose diff
\* refers to the number or the head branch of the pull request, in the
\* order of the candidates; a commit whose fetch fails is left out alone,
\* and tagCommits is empty when the candidates cannot be listed.
C22_TagCommits ==
    TagsSearched =>
        /\ Len(results) > 0
        /\ results[Len(results)].PRNumber = prCount
        /\ \A p \in pr :
              SHAsOf(results[Len(results)].TagCommits) = ReferringSHAs(p)
        /\ CallsFor("FetchCommits")[1].err =>
              /\ results[Len(results)].TagCommits.elems = <<>>
              /\ CallsFor("FetchCommit") = <<>>

\* Of two candidates that refer to the pull request the first could not be
\* fetched, and the second is its only tag commit.
C22_Witness ==
    /\ TagsSearched
    /\ Len(CallsFor("FetchCommit")) = 2
    /\ CallsFor("FetchCommit")[1].err
    /\ \A p \in pr : RefersTo(CallsFor("FetchCommit")[1].sha, p)
    /\ Len(results[Len(results)].TagCommits.elems) = 1

(***************************************************************************)
(* Claims about a run of a tracker (checked under SpecRuns).  The items of *)
(* a run are the elements its loops take: the releases, the pull requests, *)
(* and the candidate commits listed for a pull request.                    *)
(***************************************************************************)
\* The place of a call in the iteration of a pull request.
FetchRank(fn) ==
    CASE fn = "FetchPullRequestReviews" -> 1
      [] fn = "FetchCommits" -> 2
      [] fn = "FetchCommit" -> 3

\* The pull requests in the results, and the tag commits the results hold
\* for a pull request.
ResultNumbers == {results[k].PRNumber : k \in 1..Len(results)}
ResultTagSHAs(n) ==
    UNION {{results[k].TagCommits.elems[i].SHA :
               i \in 1..Len(results[k].TagCommits.elems)} :
           k \in {j \in 1..Len(results) : results[j].PRNumber = n}}

\* The releases are taken one at a time in input order, commit resolution
\* is asked once per release and the finish time only after it succeeded; a
\* release for which one of them failed is not in the results.
DeploymentsNoRetry ==
    /\ Len(taken) = relCount
    /\ \A k \in 1..Len(taken) :
          /\ taken[k].name = ReleaseName(k)
          /\ taken[k].extractErr # ErrNil => ~taken[k].finishCalled
          /\ (\/ taken[k].extractErr # ErrNil
              \/ taken[k].finishCalled /\ taken[k].finishErr # ErrNil) =>
                 \A d \in 1..Len(deployments) :
                     deployments[d].ReleaseName # taken[k].name

\* The pull requests are taken one at a time in input order, the calls for
\* one pull request come in the order of its iteration, no call is made
\* twice for an item, and an item whose fetch failed is asked for no more
\* and is not in the results.
PullRequestsNoRetry ==
    /\ \A i, j \in 1..Len(tagLog) :
          i < j =>
              /\ tagLog[i].number <= tagLog[j].number
              /\ tagLog[i].number = tagLog[j].number =>
                     FetchRank(tagLog[i].fn) <= FetchRank(tagLog[j].fn)
              /\ <<tagLog[i].fn, tagLog[i].number, tagLog[i].sha>>
                     # <<tagLog[j].fn, tagLog[j].number, tagLog[j].sha>>
    /\ \A i \in 1..Len(tagLog) :
          /\ tagLog[i].number \in 1..prCount
          /\ (tagLog[i].fn = "FetchPullRequestReviews" /\ tagLog[i].err) =>
                /\ \A j \in 1..Len(tagLog) :
                      tagLog[j].number = tagLog[i].number => j = i
                /\ tagLog[i].number \notin ResultNumbers
          /\ (tagLog[i].fn = "FetchCommit" /\ tagLog[i].err) =>
                tagLog[i].sha \notin ResultTagSHAs(tagLog[i].number)

\* C23: within one run of ProcessDeployments or ProcessPullRequests the
\* items are handled one at a time in input order, each fetch for an item
\* (commit resolution, finish time, reviews, tag commit) is issued at most
\* once, and after a fetch for an item has failed no further fetch is
\* issued for that item and the item is absent from the result.
C23_NoRetry == DeploymentsNoRetry /\ PullRequestsNoRetry

\* The reviews of the first pull request could not be fetched; the second
\* was gone on with, one of its candidate commits could not be fetched, and
\* the results hold the second pull request alone.
C23_Witness ==
    /\ prCount = 2
    /\ \E i \in 1..Len(tagLog) :
          /\ tagLog[i].fn = "FetchPullRequestReviews"
          /\ tagLog[i].number = 1
          /\ tagLog[i].err
    /\ \E i \in 1..Len(tagLog) :
          /\ tagLog[i].fn = "FetchCommit"
          /\ tagLog[i].number = 2
          /\ tagLog[i].err
    /\ ResultNumbers = {2}

====
